---- MODULE Spec2Model ----
(***************************************************************************)
(* The material-document (VMT) engine of VTF-Material-Tool-Integrated:     *)
(* the line-oriented parsers, the PBR parameter classification, the smart  *)
(* merge of an existing VMT with a freshly generated one (single-file and  *)
(* batch variants, and the conversion tab's merge), and the serializers,   *)
(* as written in vtf_material_tool_pyside6.py.                             *)
(*                                                                         *)
(* A Python str is a sequence of one-character strings; a text (the        *)
(* result of content.split('\n')) is a sequence of such lines; a Python    *)
(* dict is a sequence of <<key, value>> pairs with pairwise different keys *)
(* in insertion order.                                                     *)
(***************************************************************************)
EXTENDS Integers, Sequences, FiniteSets, TLC

\* F of v, with v evaluated once and bound to F's parameter: what a Python
\* assignment "x = v" followed by the statements F stands for computes
Let(v, F(_)) == CHOOSE r \in {F(x) : x \in {v}} : TRUE

\* ------------------------------------------------------------------ str

Q == "\""
TAB == "\t"

\* the lower-case letter of each upper-case letter
LowerTable ==
    ("A" :> "a") @@ ("B" :> "b") @@ ("C" :> "c") @@ ("D" :> "d") @@ ("E" :> "e")
    @@ ("F" :> "f") @@ ("G" :> "g") @@ ("H" :> "h") @@ ("I" :> "i") @@ ("J" :> "j")
    @@ ("K" :> "k") @@ ("L" :> "l") @@ ("M" :> "m") @@ ("N" :> "n") @@ ("O" :> "o")
    @@ ("P" :> "p") @@ ("Q" :> "q") @@ ("R" :> "r") @@ ("S" :> "s") @@ ("T" :> "t")
    @@ ("U" :> "u") @@ ("V" :> "v") @@ ("W" :> "w") @@ ("X" :> "x") @@ ("Y" :> "y")
    @@ ("Z" :> "z")

\* str.lower() on one character
LowerChar(c) == IF c \in DOMAIN LowerTable THEN LowerTable[c] ELSE c

\* s.lower()
Lower(s) == Let(s, LAMBDA t : [i \in 1..Len(t) |-> LowerChar(t[i])])

\* the characters str.strip() removes
IsSpace(c) == c \in {" ", "\t", "\r", "\n"}

\* s.lstrip(): s from its first character that is no space
LStrip(s) ==
    Let(s, LAMBDA t :
        IF \A i \in 1..Len(t) : IsSpace(t[i]) THEN <<>>
        ELSE SubSeq(t, CHOOSE i \in 1..Len(t) :
                          ~IsSpace(t[i]) /\ \A j \in 1..(i - 1) : IsSpace(t[j]),
                    Len(t)))

\* s.rstrip(): s up to its last character that is no space
RStrip(s) ==
    Let(s, LAMBDA t :
        IF \A i \in 1..Len(t) : IsSpace(t[i]) THEN <<>>
        ELSE SubSeq(t, 1, CHOOSE i \in 1..Len(t) :
                             ~IsSpace(t[i]) /\ \A j \in (i + 1)..Len(t) : IsSpace(t[j])))

\* s.strip()
Strip(s) == RStrip(LStrip(s))

\* s.startswith(p)
StartsWith(s, p) == Let(s, LAMBDA t : Len(t) >= Len(p) /\ SubSeq(t, 1, Len(p)) = p)

\* s.endswith(p)
EndsWith(s, p) ==
    Let(s, LAMBDA t : Len(t) >= Len(p) /\ SubSeq(t, Len(t) - Len(p) + 1, Len(t)) = p)

\* sub in s
Contains(s, sub) ==
    Let(s, LAMBDA t : Let(sub, LAMBDA u :
        \E i \in 0..(Len(t) - Len(u)) : SubSeq(t, i + 1, i + Len(u)) = u))

\* s[n:]
From(s, n) == Let(s, LAMBDA t : SubSeq(t, n + 1, Len(t)))

\* s.count(c) for a one-character c
CountChar(s, c) == Let(s, LAMBDA t : Cardinality({i \in 1..Len(t) : t[i] = c}))

\* the place of the n-th occurrence of c in s; 0 for n = 0, Len(s) + 1 past the last
NthChar(s, c, n) ==
    Let({i \in 1..Len(s) : s[i] = c}, LAMBDA at :
        IF n = 0 THEN 0
        ELSE IF n > Cardinality(at) THEN Len(s) + 1
        ELSE CHOOSE i \in at : Cardinality({j \in at : j < i}) = n - 1)

\* s.split(c) for a one-character c: the parts between the occurrences of c
Split(s, c) ==
    Let(s, LAMBDA t :
        [n \in 1..(CountChar(t, c) + 1) |->
            SubSeq(t, NthChar(t, c, n - 1) + 1, NthChar(t, c, n) - 1)])

\* sub in content, for a content held as its lines (sub holds no line break)
TextContains(text, sub) ==
    Let(text, LAMBDA t : \E i \in 1..Len(t) : Contains(t[i], sub))

\* content.lower()
TextLower(text) == Let(text, LAMBDA t : [i \in 1..Len(t) |-> Lower(t[i])])

\* ----------------------------------------------------------------- dict

DictKeys(d) == Let(d, LAMBDA e : [i \in 1..Len(e) |-> e[i][1]])

\* k in d
DictHas(d, k) == Let(d, LAMBDA e : \E i \in 1..Len(e) : e[i][1] = k)

\* d[k]
DictGet(d, k) == Let(d, LAMBDA e : e[CHOOSE i \in 1..Len(e) : e[i][1] = k][2])

\* d[k] = v: in place when k is a key of d, appended otherwise
DictSet(d, k, v) ==
    Let(d, LAMBDA e :
        IF DictHas(e, k)
        THEN [i \in 1..Len(e) |-> IF e[i][1] = k THEN <<k, v>> ELSE e[i]]
        ELSE Append(e, <<k, v>>))

\* del d[k]
DictDel(d, k) == SelectSeq(d, LAMBDA e : e[1] # k)

\* the items appended to d, a key of d or not
DictAppendAll(d, items) == d \o items

\* the items put behind d, the keys of d they name taken out of it
DictMoveAll(d, items) ==
    SelectSeq(d, LAMBDA e : \A i \in 1..Len(items) : items[i][1] # e[1]) \o items

\* d after "for k, v in items: d[k] = v": every key stands where it was first
\* assigned and holds the value assigned to it last
\* an assignment of all items where a key's first value stays
DictAssignFirst(d, items) ==
    Let(d \o items, LAMBDA all :
        SelectSeq([i \in 1..Len(all) |->
                      IF \A j \in 1..(i - 1) : all[j][1] # all[i][1] THEN all[i] ELSE <<>>],
                  LAMBDA item : item # <<>>))

DictAssignAll(d, items) ==
    Let(d \o items, LAMBDA all :
    Let(SelectSeq([i \in 1..Len(all) |-> i],
                  LAMBDA i : \A j \in 1..(i - 1) : all[j][1] # all[i][1]), LAMBDA firsts :
        [n \in 1..Len(firsts) |->
            <<all[firsts[n]][1],
              all[CHOOSE i \in 1..Len(all) :
                     /\ all[i][1] = all[firsts[n]][1]
                     /\ \A j \in (i + 1)..Len(all) : all[j][1] # all[i][1]][2]>>]))

\* -------------------------------------------------------------- literals

s_patch == <<"p","a","t","c","h">>
s_include == <<"i","n","c","l","u","d","e">>
s_replace == <<"r","e","p","l","a","c","e">>
s_insert == <<"i","n","s","e","r","t">>
s_vmt == <<".","v","m","t">>
s_VertexLitGeneric == <<"\"","V","e","r","t","e","x","L","i","t","G","e","n","e","r","i","c","\"">>

\* ------------------------------------- L4D2ProcessingThread (single file)

\* the test of parse_standard_vmt's loop on a raw line: it assigns a parameter
HasParam(raw) ==
    Let(Strip(raw), LAMBDA line :
        /\ StartsWith(line, <<Q, "$">>)
        /\ Contains(From(line, 2), <<Q>>)
        /\ Len(Split(line, Q)) >= 4)

\* <<param_name, param_value>>: parts[1] and parts[3] of line.split('"')
ParamOf(raw) == Let(Split(Strip(raw), Q), LAMBDA parts : <<parts[2], parts[4]>>)

\* params after the loop over the lines: params[param_name] = param_value for each
\* line that passes the test, in the order of the lines
ParamLines(lines, params) ==
    Let(SelectSeq(lines, HasParam), LAMBDA hits :
        DictAssignAll(params, [i \in 1..Len(hits) |-> ParamOf(hits[i])]))

\* a parse that gives up, with no parameter, on a text whose braces do not pair
parse_standard_vmt_strict(vmt_content) ==
    IF Cardinality({i \in 1..Len(vmt_content) : CountChar(vmt_content[i], "{") > 0})
       # Cardinality({i \in 1..Len(vmt_content) : CountChar(vmt_content[i], "}") > 0})
    THEN <<>>
    ELSE ParamLines(vmt_content, <<>>)

parse_standard_vmt(vmt_content) == ParamLines(vmt_content, <<>>)

\* one of the two block scans of parse_patch_vmt (keyword 'replace', then 'insert'):
\* a line that holds the keyword and '{' sets in_block, a later line that holds
\* '}' clears it, and a line in between that starts with "$ assigns when it splits
\* into four parts or more
PatchBlockScan(lines, keyword, params) ==
    Let([i \in 1..Len(lines) |-> Strip(lines[i])], LAMBDA ls :
    Let({i \in 1..Len(ls) :
            Contains(Lower(ls[i]), keyword) /\ Contains(ls[i], <<"{">>)}, LAMBDA opens :
    Let({i \in 1..Len(ls) : i \notin opens /\ Contains(ls[i], <<"}">>)}, LAMBDA closes :
    Let(SelectSeq([i \in 1..Len(ls) |-> i],
                  LAMBDA i :
                     /\ i \notin opens
                     /\ \E j \in opens : j < i /\ \A k \in (j + 1)..(i - 1) : k \notin closes
                     /\ ~Contains(ls[i], <<"}">>)
                     /\ StartsWith(ls[i], <<Q, "$">>)
                     /\ Len(Split(ls[i], Q)) >= 4), LAMBDA hits :
        DictAssignAll(params, [n \in 1..Len(hits) |-> ParamOf(ls[hits[n]])])))))

\* the include scan only reports the path; the replace block is read first, then
\* the insert block into the same dict
parse_patch_vmt(vmt_content) ==
    Let(vmt_content, LAMBDA lines :
        PatchBlockScan(lines, s_insert, PatchBlockScan(lines, s_replace, <<>>)))

parse_vmt_params(vmt_content) ==
    Let(vmt_content, LAMBDA content :
        IF TextContains(TextLower(content), s_patch)
           /\ TextContains(TextLower(content), s_include)
        THEN parse_patch_vmt(content)
        ELSE parse_standard_vmt(content))

\* f'\t"{param}"\t\t"{value}"'
ParamText(param, value) == <<TAB, Q>> \o param \o <<Q, TAB, TAB, Q>> \o value \o <<Q>>

\* the document with its keys written bare, as the generated template writes them
build_vmt_unquoted(params) ==
    <<s_VertexLitGeneric, <<"{">>>>
    \o [i \in 1..Len(params) |->
          <<TAB>> \o params[i][1] \o <<TAB, TAB, Q>> \o params[i][2] \o <<Q>>]
    \o << <<"}">> >>

build_vmt_from_params(params) ==
    Let(params, LAMBDA p :
        <<s_VertexLitGeneric, <<"{">>>>
        \o [i \in 1..Len(p) |-> ParamText(p[i][1], p[i][2])]
        \o << <<"}">> >>)

pbr_semantic_keywords ==
    {<<"p","h","o","n","g">>,
     <<"e","n","v","m","a","p">>,
     <<"b","u","m","p">>,
     <<"n","o","r","m","a","l">>,
     <<"m","e","t","a","l","l","i","c">>,
     <<"r","o","u","g","h","n","e","s","s">>,
     <<"b","a","s","e","t","e","x","t","u","r","e">>,
     <<"a","l","b","e","d","o">>,
     <<"s","p","e","c","u","l","a","r">>,
     <<"r","e","f","l","e","c","t","i","o","n">>}

common_pbr_params ==
    {<<"$","m","o","d","e","l">>,
     <<"$","s","u","r","f","a","c","e","p","r","o","p">>,
     <<"$","h","a","l","f","l","a","m","b","e","r","t">>,
     <<"$","p","h","o","n","g","f","r","e","s","n","e","l","r","a","n","g","e","s">>,
     <<"$","p","h","o","n","g","b","o","o","s","t">>,
     <<"$","p","h","o","n","g","a","l","b","e","d","o","t","i","n","t">>,
     <<"$","e","n","v","m","a","p","f","r","e","s","n","e","l">>,
     <<"$","e","n","v","m","a","p","c","o","n","t","r","a","s","t">>,
     <<"$","e","n","v","m","a","p","t","i","n","t">>,
     <<"$","n","o","r","m","a","l","m","a","p","a","l","p","h","a","e","n","v","m","a","p","m","a","s","k">>}

\* the set of lower-cased parameter names identify_pbr_parameters returns
identify_pbr_parameters(existing_params, generated_params, material_name) ==
    Let(Lower(material_name), LAMBDA name :
        {Lower(existing_params[i][1]) : i \in
            {j \in 1..Len(existing_params) : Contains(Lower(existing_params[j][2]), name)}}
        \cup
        {Lower(generated_params[i][1]) : i \in
            {j \in 1..Len(generated_params) : Contains(Lower(generated_params[j][2]), name)}}
        \cup
        {Lower(generated_params[i][1]) : i \in
            {j \in 1..Len(generated_params) :
                \E keyword \in pbr_semantic_keywords :
                    Contains(Lower(generated_params[j][1]), keyword)}}
        \cup
        {Lower(generated_params[i][1]) : i \in
            {j \in 1..Len(generated_params) :
                Lower(generated_params[j][1]) \in common_pbr_params}})

\* the merge loop without its test: every generated parameter assigned
MergeLoopUntested(generated_params, existing_params, pbr_related_params, merged_params) ==
    DictAssignAll(merged_params, generated_params)

\* the merge loop of smart_merge_vmt over generated_params.items(): a parameter
\* is assigned when its lower-cased name is PBR related or it is no key of
\* existing_params
MergeLoop(generated_params, existing_params, pbr_related_params, merged_params) ==
    DictAssignAll(merged_params,
        SelectSeq(generated_params,
                  LAMBDA item : \/ Lower(item[1]) \in pbr_related_params
                                \/ ~DictHas(existing_params, item[1])))

\* what smart_merge_vmt has bound when it returns, the existing file read
smart_merge_vmt_locals(existing_content, generated_vmt, material_name) ==
    Let(parse_vmt_params(existing_content), LAMBDA existing_params :
    Let(parse_vmt_params(generated_vmt), LAMBDA generated_params :
    Let(identify_pbr_parameters(existing_params, generated_params, material_name),
        LAMBDA pbr_related_params :
    Let(MergeLoop(generated_params, existing_params, pbr_related_params, existing_params),
        LAMBDA merged_params :
        [existing_params |-> existing_params,
         generated_params |-> generated_params,
         merged_params |-> merged_params,
         returned |-> build_vmt_from_params(merged_params)]))))

smart_merge_params(existing_content, generated_vmt, material_name) ==
    smart_merge_vmt_locals(existing_content, generated_vmt, material_name).merged_params

smart_merge_vmt(existing_content, generated_vmt, material_name) ==
    smart_merge_vmt_locals(existing_content, generated_vmt, material_name).returned

\* ---------------------------------------- L4D2BatchProcessingThread (batch)

\* the attributes an L4D2BatchProcessingThread object has: the class's signals and
\* what __init__ sets; the check box of that name is a widget of L4D2ConversionTab
thread_attributes ==
    {"progress", "finished", "error",
     "vmt_files", "output_dir", "processed_count", "failed_count"}

\* hasattr(self, 'patch_format_checkbox') and self.patch_format_checkbox.isChecked()
patch_format_enabled == "patch_format_checkbox" \in thread_attributes

\* existing_content.strip().lower().startswith('patch') or 'include' in existing_content.lower()
LooksLikePatch(vmt_content) ==
    Let(vmt_content, LAMBDA content :
        \/ \E i \in 1..Len(content) :
              /\ \A j \in 1..(i - 1) : Strip(content[j]) = <<>>
              /\ StartsWith(Lower(LStrip(content[i])), s_patch)
        \/ TextContains(TextLower(content), s_include))

pbr_keywords ==
    {<<"p","h","o","n","g">>,
     <<"e","n","v","m","a","p">>,
     <<"b","u","m","p">>,
     <<"b","a","s","e","t","e","x","t","u","r","e">>,
     <<"n","o","r","m","a","l">>}

\* pbr_params of smart_merge_batch_vmt
batch_pbr_params(existing_params, generated_params, material_name) ==
    Let(Lower(material_name), LAMBDA name :
        {Lower(existing_params[i][1]) : i \in
            {j \in 1..Len(existing_params) : Contains(Lower(existing_params[j][2]), name)}}
        \cup
        {Lower(generated_params[i][1]) : i \in
            {j \in 1..Len(generated_params) :
                \E keyword \in pbr_keywords :
                    Contains(Lower(generated_params[j][1]), keyword)}})

\* the merge loop of smart_merge_batch_vmt over generated_params.items()
BatchMergeLoop(generated_params, existing_params, batch_pbr, merged_params) ==
    DictAssignAll(merged_params,
        SelectSeq(generated_params,
                  LAMBDA item : \/ Lower(item[1]) \in batch_pbr
                                \/ ~DictHas(existing_params, item[1])))

\* ------------------------------------------- L4D2ConversionTab (merge_vmt_files)

parse_vmt_parameters(vmt_content) == ParamLines(vmt_content, <<>>)

pbr_params ==
    {<<"$","b","a","s","e","t","e","x","t","u","r","e">>,
     <<"$","b","u","m","p","m","a","p">>,
     <<"$","p","h","o","n","g">>,
     <<"$","p","h","o","n","g","e","x","p","o","n","e","n","t">>,
     <<"$","p","h","o","n","g","e","x","p","o","n","e","n","t","t","e","x","t","u","r","e">>,
     <<"$","p","h","o","n","g","b","o","o","s","t">>,
     <<"$","p","h","o","n","g","f","r","e","s","n","e","l","r","a","n","g","e","s">>,
     <<"$","e","n","v","m","a","p">>,
     <<"$","e","n","v","m","a","p","t","i","n","t">>,
     <<"$","e","n","v","m","a","p","c","o","n","t","r","a","s","t">>,
     <<"$","n","o","r","m","a","l","m","a","p","a","l","p","h","a","e","n","v","m","a","p","m","a","s","k">>,
     <<"$","e","n","v","m","a","p","f","r","e","s","n","e","l">>,
     <<"$","p","h","o","n","g","a","l","b","e","d","o","t","i","n","t">>,
     <<"$","h","a","l","f","l","a","m","b","e","r","t">>,
     <<"$","m","o","d","e","l">>,
     <<"$","s","u","r","f","a","c","e","p","r","o","p">>}

\* the merge loop of merge_vmt_files over generated_params.items()
TabMergeLoop(generated_params, merged_params) ==
    DictAssignAll(merged_params,
        SelectSeq(generated_params, LAMBDA item : Lower(item[1]) \in pbr_params))

generate_vmt_from_params(params) ==
    Let(params, LAMBDA p :
        <<s_VertexLitGeneric, <<"{">>>>
        \o [i \in 1..Len(p) |-> ParamText(p[i][1], p[i][2])]
        \o << <<"}">> >>)

\* what merge_vmt_files has bound when it returns, the original file read
merge_vmt_files_locals(original_content, generated_vmt_content) ==
    Let(parse_vmt_parameters(original_content), LAMBDA original_params :
    Let(parse_vmt_parameters(generated_vmt_content), LAMBDA generated_params :
    Let(TabMergeLoop(generated_params, original_params), LAMBDA merged_params :
        [original_params |-> original_params,
         generated_params |-> generated_params,
         merged_params |-> merged_params,
         returned |-> generate_vmt_from_params(merged_params)])))

merge_vmt_params(original_content, generated_vmt_content) ==
    merge_vmt_files_locals(original_content, generated_vmt_content).merged_params

merge_vmt_files(original_content, generated_vmt_content) ==
    merge_vmt_files_locals(original_content, generated_vmt_content).returned

\* --------------------------- L4D2BatchProcessingThread: patch-format functions

\* a section name that is not set (None, falsy like the empty str)
None == <<>>

\* _extract_quoted_value(line): what stands between the first two quotes, or ""
extract_quoted_value(line) ==
    Let(Split(line, Q), LAMBDA parts : IF Len(parts) >= 3 THEN parts[2] ELSE <<>>)

\* _parse_vmt_line(line): <<param_name, param_value>>, or <<None, None>>
parse_vmt_line(line) ==
    Let(Split(line, Q), LAMBDA parts :
        IF Len(parts) >= 4 THEN <<parts[2], parts[4]>> ELSE <<None, None>>)

\* params.update(base_params)
DictUpdate(params, base_params) == DictAssignAll(params, base_params)

\* an include loader that opens no file
load_include_file_opaque(include_path, base_dir, files, depth) == <<>>

\* Path(base_dir) / include_path as a string, for relative paths without dots:
\* "" and "." name the directory the paths of the model are relative to
JoinPath(base_dir, include_path) ==
    IF base_dir = <<>> \/ base_dir = <<".">> THEN include_path
    ELSE base_dir \o <<"/">> \o include_path

\* str(Path(path).parent)
Parent(path) ==
    IF \E i \in 1..Len(path) : path[i] = "/"
    THEN SubSeq(path, 1, (CHOOSE i \in 1..Len(path) :
                             /\ path[i] = "/"
                             /\ \A j \in (i + 1)..Len(path) : path[j] # "/") - 1)
    ELSE <<".">>

RECURSIVE load_include_file(_, _, _, _)
RECURSIVE parse_patch_vmt_params(_, _, _, _)
RECURSIVE parse_batch_vmt_params(_, _, _, _)
RECURSIVE PatchParamsScan(_, _, _, _, _, _)

\* the loop of parse_patch_vmt_params from its line `at` on; files maps the paths
\* of the files that exist, relative to the directory of the document the
\* outermost call parses, to their content, depth is the number of nested
\* includes still followed before Python's recursion limit ends the chain
PatchParamsScan(lines, at, params, current_section, brace_level, files) ==
    IF at > Len(lines) THEN params
    ELSE
    LET line == Strip(lines[at])
        opened == brace_level + CountChar(line, "{")
        closed == opened - CountChar(line, "}")
        pv == parse_vmt_line(line)
    IN
    Let(IF line = <<>> \/ StartsWith(line, <<"/", "/">>)
        THEN <<params, current_section, brace_level>>
        ELSE IF Contains(line, <<"}">>)
        THEN <<params,
               IF closed <= 1 /\ current_section # None THEN None ELSE current_section,
               closed>>
        ELSE IF StartsWith(Lower(line), s_patch) /\ opened = 0
        THEN <<params, current_section, opened>>
        ELSE IF StartsWith(line, s_include) /\ Contains(line, <<Q>>)
        THEN <<IF extract_quoted_value(line) # <<>>
               THEN DictUpdate(params,
                        load_include_file(extract_quoted_value(line), files.base_dir,
                                          files.found, files.depth))
               ELSE params,
               current_section, opened>>
        ELSE IF Lower(line) \in {s_insert, s_replace}
        THEN <<params, Lower(line), opened>>
        ELSE IF current_section # None /\ StartsWith(line, <<Q, "$">>)
                /\ Contains(From(line, 2), <<Q>>)
        THEN <<IF pv[1] # <<>> /\ pv[2] # <<>>
                  /\ (current_section = s_replace \/ ~DictHas(params, pv[1]))
               THEN DictSet(params, pv[1], pv[2])
               ELSE params,
               current_section, opened>>
        ELSE <<params, current_section, opened>>, LAMBDA after :
        PatchParamsScan(lines, at + 1, after[1], after[2], after[3], files))

parse_patch_vmt_params(vmt_content, base_dir, files, depth) ==
    Let(vmt_content, LAMBDA lines :
        PatchParamsScan(lines, 1, <<>>, None, 0,
                        [found |-> files, depth |-> depth, base_dir |-> base_dir]))

\* _load_include_file: the params of the included file; {} when it does not exist
\* or when reading it fails (the except branch, reached on RecursionError)
load_include_file(include_path, base_dir, files, depth) ==
    Let(JoinPath(base_dir, include_path), LAMBDA full_path :
        IF full_path \notin DOMAIN files \/ depth = 0 THEN <<>>
        ELSE Let(files[full_path], LAMBDA content :
                 IF \E i \in 1..Len(content) :
                       /\ \A j \in 1..(i - 1) : Strip(content[j]) = <<>>
                       /\ StartsWith(LStrip(content[i]), s_patch)
                 THEN parse_patch_vmt_params(content, Parent(full_path), files, depth - 1)
                 ELSE parse_batch_vmt_params(content, full_path, files, depth - 1)))

parse_batch_vmt_params(vmt_content, vmt_file_path, files, depth) ==
    Let(vmt_content, LAMBDA content :
        IF patch_format_enabled /\ LooksLikePatch(content)
        THEN parse_patch_vmt_params(content,
                 IF vmt_file_path # <<>> THEN Parent(vmt_file_path) ELSE <<>>,
                 files, depth)
        ELSE ParamLines(content, <<>>))

\* line[:len(line) - len(line.lstrip())]
Indent(line) == SubSeq(line, 1, Len(line) - Len(LStrip(line)))

\* the loop of _build_patch_vmt from its line `at` on: st holds result_lines,
\* current_section, brace_level, in_replace_section and merged_params
RECURSIVE BuildPatchScan(_, _, _)
BuildPatchScan(lines, at, st) ==
    IF at > Len(lines) THEN st
    ELSE
    LET line == lines[at]
        stripped == Strip(line)
        level == st.brace_level + CountChar(line, "{") - CountChar(line, "}")
        closing == Contains(line, <<"}">>) /\ level <= 1 /\ st.current_section # None
        section == IF closing THEN None ELSE st.current_section
        in_replace == IF closing THEN FALSE ELSE st.in_replace_section
        name == parse_vmt_line(stripped)[1]
    IN
    Let(IF Lower(stripped) \in {s_insert, s_replace}
        THEN [st EXCEPT !.result_lines = Append(@, line),
                        !.current_section = Lower(stripped),
                        !.in_replace_section = (Lower(stripped) = s_replace),
                        !.brace_level = level]
        ELSE IF section # None /\ StartsWith(stripped, <<Q, "$">>)
                /\ Contains(From(stripped, 2), <<Q>>) /\ level > 1
                /\ name # <<>> /\ DictHas(st.merged_params, name)
        THEN [st EXCEPT !.result_lines =
                            Append(@, Indent(line) \o <<Q>> \o name \o <<Q, TAB, TAB, Q>>
                                      \o DictGet(st.merged_params, name) \o <<Q>>),
                        !.merged_params = DictDel(@, name),
                        !.current_section = section,
                        !.in_replace_section = in_replace,
                        !.brace_level = level]
        ELSE [st EXCEPT !.result_lines = Append(@, line),
                        !.current_section = section,
                        !.in_replace_section = in_replace,
                        !.brace_level = level], LAMBDA after :
        BuildPatchScan(lines, at + 1, after))

\* the greatest index of a line that ends with '}' after strip(), 0 when none
LastClosingLine(result_lines) ==
    Let({i \in 1..Len(result_lines) : EndsWith(Strip(result_lines[i]), <<"}">>)},
        LAMBDA closers :
        IF closers = {} THEN 0 ELSE CHOOSE i \in closers : \A j \in closers : j <= i)

build_patch_vmt(original_content, merged_params) ==
    Let(BuildPatchScan(original_content, 1,
            [result_lines |-> <<>>, current_section |-> None, brace_level |-> 0,
             in_replace_section |-> FALSE, merged_params |-> merged_params]), LAMBDA st :
    Let(LastClosingLine(st.result_lines), LAMBDA at :
        IF st.merged_params # <<>> /\ st.in_replace_section /\ at > 0
        THEN SubSeq(st.result_lines, 1, at - 1)
             \o [i \in 1..Len(st.merged_params) |->
                   <<TAB, TAB, Q>> \o st.merged_params[i][1] \o <<Q, TAB, TAB, Q>>
                   \o st.merged_params[i][2] \o <<Q>>]
             \o SubSeq(st.result_lines, at, Len(st.result_lines))
        ELSE st.result_lines))

\* Python's recursion limit: how deep a chain of includes is followed
RecursionLimit == 2

\* --------------------------------- L4D2BatchProcessingThread: smart merge

\* what smart_merge_batch_vmt has bound when it returns
smart_merge_batch_vmt_locals(existing_content, generated_vmt, material_name, files) ==
    Let(parse_batch_vmt_params(existing_content, material_name \o s_vmt, files,
                               RecursionLimit),
        LAMBDA existing_params :
    Let(parse_batch_vmt_params(generated_vmt, <<>>, files, RecursionLimit),
        LAMBDA generated_params :
    Let(patch_format_enabled /\ LooksLikePatch(existing_content), LAMBDA is_patch_format :
    Let(BatchMergeLoop(generated_params, existing_params,
                       batch_pbr_params(existing_params, generated_params, material_name),
                       existing_params), LAMBDA merged_params :
        [existing_params |-> existing_params,
         generated_params |-> generated_params,
         merged_params |-> merged_params,
         returned |-> IF is_patch_format
                      THEN build_patch_vmt(existing_content, merged_params)
                      ELSE <<s_VertexLitGeneric, <<"{">>>>
                           \o [i \in 1..Len(merged_params) |->
                                 ParamText(merged_params[i][1], merged_params[i][2])]
                           \o << <<"}">> >>]))))

smart_merge_batch_params(existing_content, generated_vmt, material_name, files) ==
    smart_merge_batch_vmt_locals(existing_content, generated_vmt, material_name, files).merged_params

smart_merge_batch_vmt(existing_content, generated_vmt, material_name, files) ==
    smart_merge_batch_vmt_locals(existing_content, generated_vmt, material_name, files).returned

\* ------------------------------------------------------ generated templates

\* generate_l4d2_vmt_with_materials_detection: relative_path is the output
\* directory's path below a materials directory, "" when it is below none
generate_l4d2_vmt_with_materials_detection(material_name, relative_path) ==
    LET material_path == IF relative_path # <<>> THEN relative_path \o <<"/">> \o material_name
                         ELSE material_name
    IN <<<<"\"","V","e","r","t","e","x","L","i","t","G","e","n","e","r","i","c","\"">>,
       <<"{">>,
       <<"\t","$","b","a","s","e","t","e","x","t","u","r","e","\t","\t","\"">> \o material_path \o <<"_","b","a","s","e","c","o","l","o","r","\"">>,
       <<"\t","$","b","u","m","p","m","a","p","\t","\t","\t","\"">> \o material_path \o <<"_","b","u","m","p","\"">>,
       <<>>,
       <<"\t","$","e","n","v","m","a","p","\t","\t","\t","\t","\t","\"","e","n","v","_","c","u","b","e","m","a","p","\"">>,
       <<"\t","$","e","n","v","m","a","p","t","i","n","t","\t","\t","\t","\t","\"","[","0",".","1"," ","0",".","1"," ","0",".","1","]","\"">>,
       <<"\t","$","e","n","v","m","a","p","c","o","n","t","r","a","s","t","\t","\t","\t","1",".","0">>,
       <<"\t","$","e","n","v","m","a","p","m","a","s","k","\t","\t","\t","\t","\"">> \o material_path \o <<"_","e","n","v","m","a","s","k","\"">>,
       <<"\t","$","e","n","v","m","a","p","f","r","e","s","n","e","l","\t","\t","\t","1">>,
       <<>>,
       <<"\t","$","p","h","o","n","g"," ","1">>,
       <<"\t","$","p","h","o","n","g","e","x","p","o","n","e","n","t","t","e","x","t","u","r","e","\t","\"">> \o material_path \o <<"_","p","h","o","n","g","e","x","p","\"">>,
       <<"\t","$","p","h","o","n","g","e","x","p","o","n","e","n","t","f","a","c","t","o","r","\t","3","2",".","0">>,
       <<"\t","$","p","h","o","n","g","b","o","o","s","t","\t","\t","\t","\t","5",".","0">>,
       <<"\t","$","p","h","o","n","g","f","r","e","s","n","e","l","r","a","n","g","e","s","\t","\t","\"","[","0",".","1"," ","0",".","8"," ","1",".","0","]","\"">>,
       <<"}">>>>

\* generate_batch_l4d2_vmt_with_materials_detection, with materials_prefix of
\* detect_batch_materials_directory: the relative path and '/', or ''
generate_batch_l4d2_vmt_with_materials_detection(material_name, relative_path) ==
    LET material_path == IF relative_path # <<>> THEN relative_path \o <<"/">> \o material_name
                         ELSE material_name
    IN <<<<"\"","V","e","r","t","e","x","L","i","t","G","e","n","e","r","i","c","\"">>,
       <<"{">>,
       <<"\t","\"","$","b","a","s","e","t","e","x","t","u","r","e","\""," ","\"">> \o material_path \o <<"_","b","a","s","e","t","e","x","t","u","r","e","\"">>,
       <<"\t","\"","$","b","u","m","p","m","a","p","\""," ","\"">> \o material_path \o <<"_","n","o","r","m","a","l","\"">>,
       <<"\t">>,
       <<"\t","\"","$","e","n","v","m","a","p","\""," ","\"","e","n","v","_","c","u","b","e","m","a","p","\"">>,
       <<"\t","\"","$","e","n","v","m","a","p","t","i","n","t","\""," ","\"","[","0",".","1"," ","0",".","1"," ","0",".","1","]","\"">>,
       <<"\t","\"","$","e","n","v","m","a","p","c","o","n","t","r","a","s","t","\""," ","\"","1",".","0","\"">>,
       <<"\t","\"","$","n","o","r","m","a","l","m","a","p","a","l","p","h","a","e","n","v","m","a","p","m","a","s","k","\""," ","\"","1","\"">>,
       <<"\t","\"","$","e","n","v","m","a","p","f","r","e","s","n","e","l","\""," ","\"","1","\"">>,
       <<"\t">>,
       <<"\t","\"","$","p","h","o","n","g","\""," ","\"","1","\"">>,
       <<"\t","\"","$","p","h","o","n","g","e","x","p","o","n","e","n","t","t","e","x","t","u","r","e","\""," ","\"">> \o material_path \o <<"_","p","h","o","n","g","e","x","p","o","n","e","n","t","\"">>,
       <<"\t","\"","$","p","h","o","n","g","b","o","o","s","t","\""," ","\"","5",".","0","\"">>,
       <<"\t","\"","$","p","h","o","n","g","f","r","e","s","n","e","l","r","a","n","g","e","s","\""," ","\"","[","0",".","1"," ","0",".","8"," ","1",".","0","]","\"">>,
       <<"\t","\"","$","p","h","o","n","g","a","l","b","e","d","o","t","i","n","t","\""," ","\"","1","\"">>,
       <<"\t","\"","$","h","a","l","f","l","a","m","b","e","r","t","\""," ","\"","1","\"">>,
       <<"\t">>,
       <<"\t","\"","$","m","o","d","e","l","\""," ","\"","1","\"">>,
       <<"\t","\"","$","s","u","r","f","a","c","e","p","r","o","p","\""," ","\"","d","e","f","a","u","l","t","\"">>,
       <<"}">>>>

\* ------------------------------------------------------------ input universe

k_basetexture == <<"$","b","a","s","e","t","e","x","t","u","r","e">>
k_surfaceprop == <<"$","s","u","r","f","a","c","e","p","r","o","p">>
k_detail == <<"$","d","e","t","a","i","l">>
k_Detail == <<"$","D","e","t","a","i","l">>
k_phong == <<"$","p","h","o","n","g">>
k_a == <<"$","a">>

v_old == <<"x","/","o","l","d">>
v_new == <<"x","/","n","e","w">>
v_metal == <<"m","e","t","a","l">>
v_one == <<"1">>
v_Mat_d == <<"M","a","t","_","d">>
v_mat_n == <<"m","a","t","_","n">>
v_patch_include == <<"x","/","i","n","c","l","u","d","e","/","p","a","t","c","h">>

\* the material names the runs use
Materials == {<<"m","a","t">>, <<"x">>}

\* the output directory's path below a materials directory, "" when below none
RelativePaths == {<<>>, <<"x">>}

\* the parameters an author's existing document is made of
ExistingPairs ==
    {<<k_basetexture, v_old>>, <<k_surfaceprop, v_metal>>,
     <<k_detail, v_old>>, <<k_Detail, v_Mat_d>>}

\* the parameters a generated document is made of
GeneratedPairs ==
    {<<k_basetexture, v_new>>, <<k_phong, v_one>>,
     <<k_detail, v_new>>, <<k_detail, v_mat_n>>}

\* the most parameter lines of an existing and of a generated document
MaxExisting == 2
MaxGenerated == 2

\* the lists of at most n of the pairs, no key twice
ParamLists(pairs, n) ==
    {p \in UNION {[1..m -> pairs] : m \in 0..n} :
        \A i, j \in 1..Len(p) : p[i][1] = p[j][1] => i = j}

\* a Standard document as an author or the tool writes it, one parameter a line
StandardText(shader_name, params) ==
    <<<<Q>> \o shader_name \o <<Q>>, <<"{">>>>
    \o [i \in 1..Len(params) |-> ParamText(params[i][1], params[i][2])]
    \o << <<"}">> >>

\* a Patch document in the layout generate_normal_vmt_file writes: each section
\* keyword on a line of its own, its braces on the lines around its parameters
PatchText(include_path, insert, replace) ==
    <<s_patch, <<"{">>, <<TAB>> \o s_include \o <<TAB, Q>> \o include_path \o <<Q>>,
      <<TAB>> \o s_insert, <<TAB, "{">>>>
    \o [i \in 1..Len(insert) |-> ParamText(insert[i][1], insert[i][2])]
    \o <<<<TAB, "}">>, <<TAB>> \o s_replace, <<TAB, "{">>>>
    \o [i \in 1..Len(replace) |-> ParamText(replace[i][1], replace[i][2])]
    \o <<<<TAB, "}">>, <<"}">>>>

\* a Patch document with each section's opening brace on the keyword's line
PatchTextInline(include_path, insert, replace) ==
    <<s_patch, <<"{">>, <<TAB>> \o s_include \o <<TAB, Q>> \o include_path \o <<Q>>,
      <<TAB>> \o s_insert \o <<" ", "{">>>>
    \o [i \in 1..Len(insert) |-> ParamText(insert[i][1], insert[i][2])]
    \o <<<<TAB, "}">>, <<TAB>> \o s_replace \o <<" ", "{">>>>
    \o [i \in 1..Len(replace) |-> ParamText(replace[i][1], replace[i][2])]
    \o <<<<TAB, "}">>, <<"}">>>>

s_shader == <<"V","e","r","t","e","x","L","i","t","G","e","n","e","r","i","c">>
s_unlit == <<"U","n","l","i","t","G","e","n","e","r","i","c">>
s_Foo == <<"F","o","o">>
s_base_vmt == <<"m","a","t","e","r","i","a","l","s","/","x","/","s","h","a","d","e","r","/","v","m","t","-","b","a","s","e",".","v","m","t">>

StandardDocs == {StandardText(s_shader, p) : p \in ParamLists(ExistingPairs, MaxExisting)}

\* a Standard document of another shader
UnlitDoc == StandardText(s_unlit, <<<<k_basetexture, v_old>>>>)

\* a Standard document that writes a key twice
DuplicateDoc ==
    StandardText(s_shader, <<<<k_detail, v_old>>, <<k_surfaceprop, v_metal>>, <<k_detail, v_new>>>>)

PatchB == PatchText(s_base_vmt, <<<<k_detail, v_old>>>>, <<<<k_basetexture, v_old>>>>)
PatchInlineB == PatchTextInline(s_base_vmt, <<<<k_detail, v_old>>>>, <<<<k_basetexture, v_old>>>>)
PatchInlineWords == PatchTextInline(s_base_vmt, <<>>, <<<<k_basetexture, v_patch_include>>>>)

PatchDocs ==
    {PatchText(s_base_vmt, <<>>, <<<<k_basetexture, v_old>>>>),
     PatchB,
     PatchText(s_base_vmt, <<<<k_detail, v_old>>>>, <<<<k_detail, v_new>>>>),
     PatchInlineB,
     PatchInlineWords}

\* "Foo" { "$a" "1" on one line, nothing closing it
UnclosedOneLine ==
    << <<"\"","F","o","o","\""," ","{"," ","\"","$","a","\""," ","\"","1","\"">> >>

\* the same with a line a token group, and a Standard document cut before its
\* closing brace
UnclosedLines == <<<<Q>> \o s_Foo \o <<Q>>, <<"{">>, ParamText(k_a, v_one)>>

\* a Patch document cut inside its replace section
UnclosedPatch == SubSeq(PatchB, 1, Len(PatchB) - 2)

\* a Standard document closed twice
Overclosed == StandardText(s_shader, <<<<k_basetexture, v_old>>>>) \o << <<"}">> >>

UnbalancedDocs == {UnclosedOneLine, UnclosedLines, UnclosedPatch, Overclosed}

\* a Patch document without its include line
NoIncludePatch == SubSeq(PatchB, 1, 2) \o SubSeq(PatchB, 4, Len(PatchB))

\* a Patch document that writes a key twice in its insert section
DuplicateInsertPatch ==
    PatchText(s_base_vmt, <<<<k_detail, v_old>>, <<k_detail, v_new>>>>, <<>>)

ExistingDocs ==
    StandardDocs \cup {UnlitDoc, DuplicateDoc, NoIncludePatch, DuplicateInsertPatch}
    \cup PatchDocs
    \cup UnbalancedDocs

GeneratedDocs(material_name) ==
    {StandardText(s_shader, p) : p \in ParamLists(GeneratedPairs, MaxGenerated)}
    \cup {generate_l4d2_vmt_with_materials_detection(material_name, <<>>),
          generate_batch_l4d2_vmt_with_materials_detection(material_name, <<>>)}

\* -------------------------------------------------------------------- state

VARIABLES
    vmt_file,          \* the content of <output_dir>/<material_name>.vmt, Absent when none
    material_name,     \* the material the operation is about
    relative_path,     \* the output directory's path below its materials directory
    op,                \* the operation that ran last, "none" before any
    existing_content,  \* the existing text that operation read, Absent when none
    generated_vmt,     \* the generated text that operation was handed or made
    existing_params,   \* existing_params of its merge
    generated_params,  \* generated_params of its merge
    merged_params,     \* merged_params of its merge
    vmt_content,       \* the text it returned or wrote
    reparsed,          \* what parsing vmt_content again returned, where it was parsed
    raised,            \* the exception its try block raised, "none" when none
    runs               \* the conversions run so far

\* the conversions that the runs follow
MaxRuns == 2

\* no file, no text: content.split('\n') of a file that exists has a line
Absent == <<>>

\* the output directory and the signals of the threads, which the runs with their
\* file operations follow
VARIABLES
    output_dir,        \* the content of each <stem>.vmt of the output directory
    started_dir,       \* output_dir as it was when the last conversion started
    pbr_converted,     \* whether pbr_converted/ exists, and the backups in it
    pending,           \* the files of the running batch not yet handled
    written,           \* how the last VMT write went: "none" when none was tried
    progress,          \* the <<stem, message>> pairs the last conversion emitted
    signal,            \* "running", or the signal the last conversion ended with
    processed_count,   \* processed_count of the batch thread
    failed_count,      \* failed_count of the batch thread
    include_files      \* the files an include path finds, path to content

\* VTFMaterialTool of vtf_material_tool.py, its material page and the threads that
\* process_material started
VARIABLES
    material_files,            \* self.material_files, the images chosen
    material_format_mode_var,  \* the format mode chosen: "auto", "custom", "manual"
    custom_format_vars,        \* the format chosen for each alpha type in custom mode
    vmt_alpha_config,          \* self.vmt_alpha_config
    threads,                   \* each worker thread: where it stands, and its locals
    cdmaterials_var,           \* the materials path typed in or read from a QCI file
    materials_dir,             \* the VMT of each image in the materials directory
    messagebox                 \* the <<thread, box>> pairs shown so far

\* the threads of vtf_material_tool_pyside6.py followed statement by statement:
\* the lists they were given, where their run stands, and what the tab that
\* started them has seen of their signals
VARIABLES
    vmt_files,             \* self.vmt_files of the batch thread, as scan_vmt_files listed them
    attempted,             \* the files its loop has taken up so far, in that order
    thread_class,          \* the class of the thread followed, "none" when none is
    thread_files,          \* self.files, each by what processing it will meet
    thread_options,        \* self.options
    texture_paths,         \* self.texture_paths: the texture types chosen
    is_cancelled,          \* self.is_cancelled
    file_index,            \* the turns of the loop begun so far
    pc,                    \* the statement run stands before
    steps,                 \* the steps run for the file in flight, in order
    returned,              \* what processing that file returned, "none" until it has
    e_glow_processed,      \* e_glow_processed of process_nightglow_file
    glow_processed_count,  \* processed_count of NightglowProcessingThread.run
    emitted,               \* the terminal signals the thread has emitted, in order
    handled,               \* how many of them the slots of the tab have run for
    process_btn            \* whether the process button is enabled

run_vars == <<thread_class, thread_files, thread_options, texture_paths, is_cancelled,
              file_index, pc, steps, returned, e_glow_processed, glow_processed_count,
              emitted, handled, process_btn>>

thread_vars == <<vmt_files, attempted, run_vars>>

tool_vars == <<material_files, material_format_mode_var, custom_format_vars,
               vmt_alpha_config, threads, cdmaterials_var, materials_dir,
               messagebox>>

io_vars == <<output_dir, started_dir, pbr_converted, pending, written, progress, signal,
             processed_count, failed_count, include_files, thread_vars>>

vars == <<vmt_file, material_name, relative_path, op, existing_content, generated_vmt,
          existing_params, generated_params, merged_params, vmt_content, reparsed,
          raised, runs, io_vars, tool_vars>>

\* pbr_converted/ does not exist
NoDirectory == [exists |-> FALSE, files |-> [m \in Materials |-> Absent]]

\* the conversions that the runs with their file operations follow
MaxConversions == 1

\* a file name without its .vmt: a material's name and the number of _original
\* that follow it
Stems == Materials \X (0..MaxConversions)

\* the threads process_material can have running at once: each press of the
\* button starts one, and nothing keeps a second press from starting another
Workers == {"w1", "w2"}

\* the alpha types analyze_alpha_channel tells apart: no transparency, black and
\* white transparency, gradient transparency
AlphaTypes == {"no_alpha", "binary_alpha", "gradient_alpha"}

\* the formats chosen at first for the three alpha types in custom mode
default_formats ==
    [t \in AlphaTypes |-> CASE t = "no_alpha" -> "DXT1"
                             [] t = "binary_alpha" -> "DXT3"
                             [] OTHER -> "DXT5"]

\* a thread that was not started
Idle == [pc |-> "idle", i |-> 0, materials_path |-> <<>>, processed_count |-> 0]

\* the material page as VTFMaterialTool.__init__ leaves it, no image chosen
NoMaterialTool ==
    /\ material_files = <<>>
    /\ material_format_mode_var = "auto"
    /\ custom_format_vars = default_formats
    /\ vmt_alpha_config = <<>>
    /\ threads = [w \in Workers |-> Idle]
    /\ cdmaterials_var = <<>>
    /\ materials_dir = <<>>
    /\ messagebox = {}

\* the files the batch thread's include loader finds: none lies beside the documents
IncludeFiles == [p \in {} |-> <<>>]

\* no thread is followed statement by statement
NoRun ==
    /\ thread_class = "none"
    /\ thread_files = <<>>
    /\ thread_options = <<>>
    /\ texture_paths = {}
    /\ is_cancelled = FALSE
    /\ file_index = 0
    /\ pc = "none"
    /\ steps = <<>>
    /\ returned = "none"
    /\ e_glow_processed = FALSE
    /\ glow_processed_count = 0
    /\ emitted = <<>>
    /\ handled = 0
    /\ process_btn = TRUE

\* no conversion has touched the directory and no batch was started
NoBatch ==
    /\ vmt_files = <<>>
    /\ attempted = <<>>
    /\ output_dir = [s \in Stems |-> Absent]
    /\ started_dir = output_dir
    /\ pbr_converted = NoDirectory
    /\ pending = {}
    /\ written = "none"
    /\ progress = {}
    /\ signal = "none"
    /\ processed_count = 0
    /\ failed_count = 0
    /\ include_files = IncludeFiles

\* the state of the file operations and of the threads where only the functions
\* or one material's file are followed
NoFiles == NoBatch /\ NoRun

\* ------------------------------------------------ the merge functions, called

InitMerge ==
    /\ NoFiles
    /\ NoMaterialTool
    /\ material_name \in Materials
    /\ relative_path = <<>>
    /\ existing_content \in ExistingDocs \cup {Absent}
    /\ generated_vmt \in GeneratedDocs(material_name) \cup (ExistingDocs \cap {existing_content})
    /\ op = "none"
    /\ vmt_file = existing_content
    /\ existing_params = <<>>
    /\ generated_params = <<>>
    /\ merged_params = <<>>
    /\ vmt_content = Absent
    /\ reparsed = <<>>
    /\ raised = "none"
    /\ runs = 0

\* L4D2ProcessingThread.smart_merge_vmt(generated_vmt): open() raises when the
\* file at existing_vmt_path is gone, and the except branch returns generated_vmt
CallSmartMergeVmt ==
    /\ op = "none"
    /\ op' = "smart_merge_vmt"
    /\ IF existing_content = Absent
       THEN /\ raised' = "FileNotFoundError"
            /\ existing_params' = <<>>
            /\ generated_params' = <<>>
            /\ merged_params' = <<>>
            /\ vmt_content' = generated_vmt
       ELSE \E l \in {smart_merge_vmt_locals(existing_content, generated_vmt, material_name)} :
               /\ raised' = "none"
               /\ existing_params' = l.existing_params
               /\ generated_params' = l.generated_params
               /\ merged_params' = l.merged_params
               /\ vmt_content' = l.returned
    /\ UNCHANGED <<vmt_file, material_name, relative_path, existing_content,
                   generated_vmt, reparsed, runs>>
    /\ UNCHANGED <<io_vars, tool_vars>>

\* L4D2BatchProcessingThread.smart_merge_batch_vmt(existing_content, generated_vmt,
\* material_name, vmt_file_path): its caller has read existing_content
CallSmartMergeBatchVmt ==
    /\ op = "none"
    /\ existing_content # Absent
    /\ op' = "smart_merge_batch_vmt"
    /\ \E l \in {smart_merge_batch_vmt_locals(existing_content, generated_vmt,
                                               material_name, IncludeFiles)} :
          /\ existing_params' = l.existing_params
          /\ generated_params' = l.generated_params
          /\ merged_params' = l.merged_params
          /\ vmt_content' = l.returned
    /\ raised' = "none"
    /\ UNCHANGED <<vmt_file, material_name, relative_path, existing_content,
                   generated_vmt, reparsed, runs>>
    /\ UNCHANGED <<io_vars, tool_vars>>

\* L4D2ConversionTab.merge_vmt_files(original_vmt_path, generated_vmt_content)
CallMergeVmtFiles ==
    /\ op = "none"
    /\ op' = "merge_vmt_files"
    /\ IF existing_content = Absent
       THEN /\ raised' = "FileNotFoundError"
            /\ existing_params' = <<>>
            /\ generated_params' = <<>>
            /\ merged_params' = <<>>
            /\ vmt_content' = generated_vmt
       ELSE \E l \in {merge_vmt_files_locals(existing_content, generated_vmt)} :
               /\ raised' = "none"
               /\ existing_params' = l.original_params
               /\ generated_params' = l.generated_params
               /\ merged_params' = l.merged_params
               /\ vmt_content' = l.returned
    /\ UNCHANGED <<vmt_file, material_name, relative_path, existing_content,
                   generated_vmt, reparsed, runs>>
    /\ UNCHANGED <<io_vars, tool_vars>>

\* L4D2ProcessingThread.parse_vmt_params(existing_content), build_vmt_from_params
\* of what it returned, and parse_vmt_params of that text
CallParseBuildParse ==
    /\ op = "none"
    /\ existing_content # Absent
    /\ op' = "parse_vmt_params"
    /\ existing_params' = parse_vmt_params(existing_content)
    /\ vmt_content' = build_vmt_from_params(existing_params')
    /\ reparsed' = parse_vmt_params(vmt_content')
    /\ raised' = "none"
    /\ UNCHANGED <<vmt_file, material_name, relative_path, existing_content,
                   generated_vmt, generated_params, merged_params, runs>>
    /\ UNCHANGED <<io_vars, tool_vars>>

\* L4D2BatchProcessingThread.parse_patch_vmt_params(existing_content, base_dir)
CallParsePatchVmtParams ==
    /\ op = "none"
    /\ existing_content # Absent
    /\ op' = "parse_patch_vmt_params"
    /\ existing_params' = parse_patch_vmt_params(existing_content, <<>>, IncludeFiles,
                                                 RecursionLimit)
    /\ raised' = "none"
    /\ UNCHANGED <<vmt_file, material_name, relative_path, existing_content,
                   generated_vmt, generated_params, merged_params, vmt_content,
                   reparsed, runs>>
    /\ UNCHANGED <<io_vars, tool_vars>>

NextMerge ==
    \/ CallSmartMergeVmt
    \/ CallSmartMergeBatchVmt
    \/ CallMergeVmtFiles
    \/ CallParseBuildParse
    \/ CallParsePatchVmtParams

SpecMerge == InitMerge /\ [][NextMerge]_vars
\* ------------------------------------------------------- the conversion runs

\* the VMT text of a run that merges whether or not an existing VMT was found
single_vmt_content_merged(existing_vmt, material, relative) ==
    smart_merge_vmt(existing_vmt,
        generate_l4d2_vmt_with_materials_detection(material, relative), material)

\* the VMT text L4D2ProcessingThread.run writes: the generated template, merged
\* by smart_merge_vmt when existing_vmt_path is set
single_vmt_content(existing_vmt, material, relative) ==
    IF existing_vmt # Absent
    THEN smart_merge_vmt(existing_vmt,
             generate_l4d2_vmt_with_materials_detection(material, relative), material)
    ELSE generate_l4d2_vmt_with_materials_detection(material, relative)

Init ==
    /\ NoFiles
    /\ NoMaterialTool
    /\ material_name \in Materials
    /\ relative_path \in RelativePaths
    /\ vmt_file \in ExistingDocs \cup {Absent}
    /\ op = "none"
    /\ existing_content = Absent
    /\ generated_vmt = Absent
    /\ existing_params = <<>>
    /\ generated_params = <<>>
    /\ merged_params = <<>>
    /\ vmt_content = Absent
    /\ reparsed = <<>>
    /\ raised = "none"
    /\ runs = 0

\* L4D2ConversionTab.start_single_processing and the L4D2ProcessingThread.run it
\* starts, the required textures chosen and the material named: existing_vmt_path
\* is the path of <output_dir>/<material_name>.vmt when that file exists
SingleRun ==
    /\ runs < MaxRuns
    /\ runs' = runs + 1
    /\ op' = "single"
    /\ existing_content' = vmt_file
    /\ generated_vmt' = generate_l4d2_vmt_with_materials_detection(material_name, relative_path)
    /\ IF vmt_file # Absent
       THEN \E l \in {smart_merge_vmt_locals(vmt_file, generated_vmt', material_name)} :
               /\ existing_params' = l.existing_params
               /\ generated_params' = l.generated_params
               /\ merged_params' = l.merged_params
       ELSE /\ existing_params' = <<>>
            /\ generated_params' = <<>>
            /\ merged_params' = <<>>
    /\ vmt_content' = single_vmt_content(vmt_file, material_name, relative_path)
    /\ vmt_file' = vmt_content'
    /\ raised' = "none"
    /\ UNCHANGED <<material_name, relative_path, reparsed>>
    /\ UNCHANGED <<io_vars, tool_vars>>

\* one turn of the loop of L4D2BatchProcessingThread.run, on the material's VMT
\* with the output directory the directory it lies in
BatchRun ==
    /\ runs < MaxRuns
    /\ vmt_file # Absent
    /\ runs' = runs + 1
    /\ op' = "batch"
    /\ existing_content' = vmt_file
    /\ generated_vmt' =
           generate_batch_l4d2_vmt_with_materials_detection(material_name, relative_path)
    /\ \E l \in {smart_merge_batch_vmt_locals(vmt_file, generated_vmt', material_name,
                                               IncludeFiles)} :
          /\ existing_params' = l.existing_params
          /\ generated_params' = l.generated_params
          /\ merged_params' = l.merged_params
          /\ vmt_content' = l.returned
    /\ vmt_file' = vmt_content'
    /\ raised' = "none"
    /\ UNCHANGED <<material_name, relative_path, reparsed>>
    /\ UNCHANGED <<io_vars, tool_vars>>

Next == SingleRun \/ BatchRun

Spec == Init /\ [][Next]_vars

\* ------------------------------------- the conversion runs, file by file

s_original == <<"_","o","r","i","g","i","n","a","l">>

\* the file name of a stem without its .vmt, the material name the batch takes
RECURSIVE StemName(_)
StemName(stem) ==
    IF stem[2] = 0 THEN stem[1] ELSE StemName(<<stem[1], stem[2] - 1>>) \o s_original

\* the stem of <stem>_original.vmt
OriginalOf(stem) == <<stem[1], stem[2] + 1>>

\* the existing documents the directory holds at first
StoredDocs == {StandardText(s_shader, <<<<k_detail, v_old>>>>), PatchB}

\* a file that exists and holds nothing: ''.split('\n') is ['']
EmptyFile == << <<>> >>

\* how open(path, 'w') and f.write(content) can go: done, open raised, or the
\* write or the close raised after open had truncated the file
WriteOutcomes == {"ok", "open", "write"}

\* what a file can hold after a write of content that raised once it was open:
\* nothing, or the content cut short, followed here as far as its first line
PartialWrites(content) == {EmptyFile, SubSeq(content, 1, 1)} \ {content}

\* the file at path after with open(path, 'w') as f: f.write(content)
FileAfterWrite(before, content, outcome) ==
    CASE outcome = "ok" -> {content}
      [] outcome = "open" -> {before}
      [] OTHER -> PartialWrites(content)

\* a merge that answers a failure with a document of no parameter
smart_merge_vmt_except_empty(generated) == build_vmt_from_params(<<>>)

\* what smart_merge_vmt returns from its except branch
smart_merge_vmt_except(generated) == generated

\* the message, when the thread got to emit it
Emitted(reached, message) == IF reached THEN {message} ELSE {}

InitIO ==
    /\ material_name = <<>>
    /\ relative_path = <<>>
    /\ vmt_file = Absent
    /\ op = "none"
    /\ existing_content = Absent
    /\ generated_vmt = Absent
    /\ existing_params = <<>>
    /\ generated_params = <<>>
    /\ merged_params = <<>>
    /\ vmt_content = Absent
    /\ reparsed = <<>>
    /\ raised = "none"
    /\ runs = 0
    /\ output_dir \in {d \in [Stems -> StoredDocs \cup {Absent}] :
                         \A s \in Stems : s[2] > 0 => d[s] = Absent}
    /\ started_dir = output_dir
    /\ include_files = IncludeFiles
    /\ vmt_files = <<>>
    /\ attempted = <<>>
    /\ NoRun
    /\ NoMaterialTool
    /\ pbr_converted \in {NoDirectory, [NoDirectory EXCEPT !.exists = TRUE]}
    /\ pending = {}
    /\ written = "none"
    /\ progress = {}
    /\ signal = "none"
    /\ processed_count = 0
    /\ failed_count = 0

\* L4D2ConversionTab.start_single_processing for material m and the
\* L4D2ProcessingThread.run it starts, the textures converted: read_ok is whether
\* open and read of the existing VMT go through in smart_merge_vmt, outcome how
\* the write of the VMT goes, copy_ok whether shutil.copy2 goes through
SingleRunIO ==
    /\ signal # "running"
    /\ runs < MaxConversions
    /\ \E m \in Materials :
       \E existing \in {output_dir[<<m, 0>>]} :
       \E generated \in {generate_l4d2_vmt_with_materials_detection(m, relative_path)} :
       \E l \in {smart_merge_vmt_locals(existing, generated, m)} :
       \E read_ok \in BOOLEAN, outcome \in WriteOutcomes, copy_ok \in BOOLEAN :
          /\ existing = Absent => read_ok /\ copy_ok
          /\ (outcome # "ok" \/ ~pbr_converted.exists) => copy_ok
          /\ material_name' = m
          /\ existing_content' = existing
          /\ generated_vmt' = generated
          /\ IF existing # Absent /\ read_ok
             THEN /\ existing_params' = l.existing_params
                  /\ generated_params' = l.generated_params
                  /\ merged_params' = l.merged_params
                  /\ vmt_content' = l.returned
                  /\ raised' = "none"
             ELSE /\ existing_params' = <<>>
                  /\ generated_params' = <<>>
                  /\ merged_params' = <<>>
                  /\ vmt_content' = IF existing # Absent
                                    THEN smart_merge_vmt_except(generated)
                                    ELSE generated
                  /\ raised' = IF existing # Absent THEN "Exception" ELSE "none"
          /\ written' = outcome
          /\ \E file \in FileAfterWrite(existing, vmt_content', outcome) :
                output_dir' = [output_dir EXCEPT ![<<m, 0>>] = file]
          /\ LET backed_up == outcome = "ok" /\ existing # Absent
                                 /\ pbr_converted.exists /\ copy_ok
             IN /\ pbr_converted' =
                       IF backed_up
                       THEN [pbr_converted EXCEPT !.files[m] = output_dir'[<<m, 0>>]]
                       ELSE pbr_converted
                /\ progress' =
                       Emitted(raised' # "none", <<m, "merge failed">>)
                       \cup Emitted(backed_up, <<m, "backed up">>)
                       \cup Emitted(outcome = "ok" /\ existing # Absent /\ ~backed_up,
                                    <<m, "backup failed">>)
          /\ signal' = IF outcome = "ok" THEN "finished" ELSE "error"
    /\ runs' = runs + 1
    /\ op' = "single"
    /\ started_dir' = output_dir
    /\ UNCHANGED <<vmt_file, relative_path, reparsed, pending, processed_count,
                   failed_count, include_files, thread_vars, tool_vars>>

\* the lists that hold each file of the set once: glob yields the files of a
\* directory in an order the file system chooses
Listings(found) ==
    {l \in [1..Cardinality(found) -> found] :
        \A i, j \in 1..Cardinality(found) : i # j => l[i] # l[j]}

\* L4D2ConversionTab.start_batch_processing: scan_vmt_files globs *.vmt of the
\* output directory and the batch thread is started on the list it made
StartBatch ==
    /\ signal # "running"
    /\ runs < MaxConversions
    /\ \E found \in {{s \in Stems : output_dir[s] # Absent}} :
          /\ found # {}
          /\ pending' = found
          /\ vmt_files' \in Listings(found)
    /\ attempted' = <<>>
    /\ runs' = runs + 1
    /\ op' = "start_batch"
    /\ signal' = "running"
    /\ started_dir' = output_dir
    /\ progress' = {}
    /\ written' = "none"
    /\ processed_count' = 0
    /\ failed_count' = 0
    /\ UNCHANGED <<vmt_file, material_name, relative_path, existing_content, generated_vmt,
                   existing_params, generated_params, merged_params, vmt_content,
                   reparsed, raised, output_dir, pbr_converted, include_files,
                   run_vars, tool_vars>>

\* a turn that counts the file as processed once its VMT is written
turn_completed_at_write(read_ok, outcome, copy_ok) == read_ok /\ outcome = "ok"

\* whether a turn of the loop gets to self.processed_count += 1: the statements
\* before it, the read, the write and shutil.copy2, all went through
turn_completed(read_ok, outcome, copy_ok) == read_ok /\ outcome = "ok" /\ copy_ok

\* one turn of the loop of L4D2BatchProcessingThread.run, on the next file of the
\* list, and after the last turn the end of run: read_ok, outcome and copy_ok as
\* in SingleRunIO
BatchFile ==
    /\ signal = "running"
    /\ \E stem \in {vmt_files[Len(attempted) + 1]} :
       \E existing \in {output_dir[stem]} :
       \E generated \in {generate_batch_l4d2_vmt_with_materials_detection(
                             StemName(stem), relative_path)} :
       \E l \in {smart_merge_batch_vmt_locals(existing, generated, StemName(stem),
                                                  IncludeFiles)} :
       \E read_ok \in BOOLEAN, outcome \in WriteOutcomes, copy_ok \in BOOLEAN :
          /\ ~read_ok => outcome = "ok"
          /\ (~read_ok \/ outcome # "ok") => copy_ok
          /\ material_name' = StemName(stem)
          /\ existing_content' = existing
          /\ IF read_ok
             THEN /\ generated_vmt' = generated
                  /\ existing_params' = l.existing_params
                  /\ generated_params' = l.generated_params
                  /\ merged_params' = l.merged_params
                  /\ vmt_content' = l.returned
                  /\ written' = outcome
                  /\ \E file \in FileAfterWrite(existing, l.returned, outcome) :
                        output_dir' =
                            IF outcome = "ok" /\ copy_ok
                            THEN [output_dir EXCEPT ![stem] = file,
                                                    ![OriginalOf(stem)] = file]
                            ELSE [output_dir EXCEPT ![stem] = file]
             ELSE /\ generated_vmt' = Absent
                  /\ existing_params' = <<>>
                  /\ generated_params' = <<>>
                  /\ merged_params' = <<>>
                  /\ vmt_content' = Absent
                  /\ written' = "none"
                  /\ output_dir' = output_dir
          /\ LET done == turn_completed(read_ok, outcome, copy_ok)
             IN /\ processed_count' = processed_count + (IF done THEN 1 ELSE 0)
                /\ failed_count' = failed_count + (IF done THEN 0 ELSE 1)
                /\ progress' = progress \cup {<<stem, IF done THEN "done" ELSE "failed">>}
          /\ pending' = pending \ {stem}
          /\ attempted' = Append(attempted, stem)
          /\ signal' = IF Len(attempted') = Len(vmt_files) THEN "finished" ELSE "running"
    /\ op' = "batch"
    /\ raised' = "none"
    /\ UNCHANGED <<vmt_file, relative_path, reparsed, runs, started_dir, pbr_converted,
                   include_files, vmt_files, run_vars, tool_vars>>

NextIO == SingleRunIO \/ StartBatch \/ BatchFile

SpecIO == InitIO /\ [][NextIO]_vars

\* ----------------------------------- the glow documents of vtf_material_tool.py

\* emissive_configs of generate_patch_vmt_with_emissive
emissive_configs(materials_path, base_name) ==
    <<<<"\t","\t","\"","$","E","m","i","s","s","i","v","e","B","l","e","n","d","E","n","a","b","l","e","d","\"","\t","\t","\t","\"","1","\"">>,
      <<"\t","\t","\"","$","E","m","i","s","s","i","v","e","B","l","e","n","d","S","t","r","e","n","g","t","h","\"","\t","\t","\t","\"","0",".","0","5","\"">>,
      <<"\t","\t","\"","$","E","m","i","s","s","i","v","e","B","l","e","n","d","T","e","x","t","u","r","e","\"","\t","\t","\t","\"","v","g","u","i","/","w","h","i","t","e","\"">>,
      <<"\t","\t","\"","$","E","m","i","s","s","i","v","e","B","l","e","n","d","B","a","s","e","T","e","x","t","u","r","e","\"","\t","\t","\"">> \o materials_path \o <<"/">> \o base_name \o <<"_","E","\"">>,
      <<"\t","\t","\"","$","E","m","i","s","s","i","v","e","B","l","e","n","d","F","l","o","w","T","e","x","t","u","r","e","\"","\t","\t","\"","v","g","u","i","/","w","h","i","t","e","\"">>,
      <<"\t","\t","\"","$","E","m","i","s","s","i","v","e","B","l","e","n","d","T","i","n","t","\"","\t","\t","\t","\t","\"","["," ","1"," ","1"," ","1"," ","]","\"">>,
      <<"\t","\t","\"","$","E","m","i","s","s","i","v","e","B","l","e","n","d","S","c","r","o","l","l","V","e","c","t","o","r","\"","\t","\t","\"","["," ","0"," ","0"," ","]","\"">>>>

\* emissive_config of generate_standard_vmt_with_emissive
emissive_config(materials_path, base_name) ==
    <<<<"\t","\"","$","s","e","l","f","i","l","l","u","m","\"","\t","\t","\t","\t","\"","0","\"">>,
      <<"\t","\"","$","E","m","i","s","s","i","v","e","B","l","e","n","d","E","n","a","b","l","e","d","\"","\t","\t","\"","1","\"">>,
      <<"\t","\"","$","E","m","i","s","s","i","v","e","B","l","e","n","d","S","t","r","e","n","g","t","h","\"","\t","\t","\"","0",".","0","5","\"">>,
      <<"\t","\"","$","E","m","i","s","s","i","v","e","B","l","e","n","d","T","e","x","t","u","r","e","\"","\t","\t","\"","v","g","u","i","/","w","h","i","t","e","\"">>,
      <<"\t","\"","$","E","m","i","s","s","i","v","e","B","l","e","n","d","B","a","s","e","T","e","x","t","u","r","e","\"","\t","\"">> \o materials_path \o <<"/">> \o base_name \o <<"_","E","\"">>,
      <<"\t","\"","$","E","m","i","s","s","i","v","e","B","l","e","n","d","F","l","o","w","T","e","x","t","u","r","e","\"","\t","\"","v","g","u","i","/","w","h","i","t","e","\"">>,
      <<"\t","\"","$","E","m","i","s","s","i","v","e","B","l","e","n","d","T","i","n","t","\"","\t","\t","\t","\"","["," ","1"," ","1"," ","1"," ","]","\"">>,
      <<"\t","\"","$","E","m","i","s","s","i","v","e","B","l","e","n","d","S","c","r","o","l","l","V","e","c","t","o","r","\"","\t","\"","["," ","0"," ","0"," ","]","\"">>>>

\* the $selfillum line generate_patch_vmt_with_emissive adds to a replace block
selfillum_line == <<"\t","\t","\"","$","s","e","l","f","i","l","l","u","m","\"","\t","\t","\t","\t","\t","\"","0","\"">>

\* the index of the first line from j on that holds an opening brace, 0 when none
OpeningLine(lines, j) ==
    Let({n \in j..Len(lines) : CountChar(lines[n], "{") > 0}, LAMBDA found :
        IF found = {} THEN 0 ELSE CHOOSE n \in found : \A o \in found : n <= o)

\* the index of the line from j on at which brace_count, a line with an opening
\* brace adding one and a line with a closing brace taking one, comes to 0; 0
\* when it does not before the lines end
RECURSIVE ClosingLine(_, _, _)
ClosingLine(lines, j, brace_count) ==
    IF j > Len(lines) THEN 0
    ELSE LET count == brace_count
                      + (IF CountChar(lines[j], "{") > 0 THEN 1 ELSE 0)
                      - (IF CountChar(lines[j], "}") > 0 THEN 1 ELSE 0)
         IN IF count > 0 THEN ClosingLine(lines, j + 1, count) ELSE j

\* the loop of generate_patch_vmt_with_emissive from line i on: the lines it
\* appends to new_lines
RECURSIVE PatchEmissiveScan(_, _, _)
PatchEmissiveScan(lines, i, configs) ==
    IF i > Len(lines) THEN <<>>
    ELSE LET line == Lower(Strip(lines[i]))
             is_insert == Contains(line, s_insert)
             opening == OpeningLine(lines, i + 1)
             closing == IF opening = 0 THEN 0 ELSE ClosingLine(lines, opening + 1, 1)
             content == SubSeq(lines, opening + 1, closing - 1)
         IN IF ~is_insert /\ ~Contains(line, s_replace)
            THEN <<lines[i]>> \o PatchEmissiveScan(lines, i + 1, configs)
            ELSE IF opening = 0 THEN SubSeq(lines, i, Len(lines))
            ELSE IF closing = 0 THEN SubSeq(lines, i, opening)
            ELSE SubSeq(lines, i, opening)
                 \o (IF is_insert
                     THEN SelectSeq(content, LAMBDA l : Strip(l) # <<>>) \o configs
                     ELSE content \o <<selfillum_line>>)
                 \o <<lines[closing]>>
                 \o PatchEmissiveScan(lines, closing + 1, configs)

\* generate_patch_vmt_with_emissive: the text it writes
generate_patch_vmt_with_emissive(lines, materials_path, base_name) ==
    PatchEmissiveScan(lines, 1, emissive_configs(materials_path, base_name))

\* generate_standard_vmt_with_emissive: the text it writes, Absent when it
\* writes none
generate_standard_vmt_with_emissive(lines, materials_path, base_name) ==
    Let({i \in 1..Len(lines) :
            /\ Strip(lines[i]) # <<>>
            /\ ~StartsWith(Strip(lines[i]), <<"}">>)
            /\ ~StartsWith(Strip(lines[i]), <<"/", "/">>)}, LAMBDA valid :
        IF valid = {} THEN Absent
        ELSE LET insert_index == CHOOSE i \in valid : \A o \in valid : o <= i
             IN SubSeq(lines, 1, insert_index)
                \o emissive_config(materials_path, base_name)
                \o SubSeq(lines, insert_index + 1, Len(lines)))

\* create_new_patch_vmt: the text it writes, which ends with a line feed
create_new_patch_vmt(materials_path, base_name) ==
    <<<<"p","a","t","c","h">>,
      <<"{">>,
      <<"\t","i","n","c","l","u","d","e","\t","\t","\"","m","a","t","e","r","i","a","l","s","/">> \o materials_path \o <<"/","s","h","a","d","e","r","/","v","m","t","-","b","a","s","e",".","v","m","t","\"">>,
      <<"\t","i","n","s","e","r","t">>,
      <<"\t","{">>,
      <<"\t","\t","\"","$","E","m","i","s","s","i","v","e","B","l","e","n","d","E","n","a","b","l","e","d","\"","\t","\t","\t","\"","1","\"">>,
      <<"\t","\t","\"","$","E","m","i","s","s","i","v","e","B","l","e","n","d","S","t","r","e","n","g","t","h","\"","\t","\t","\t","\"","0",".","0","5","\"">>,
      <<"\t","\t","\"","$","E","m","i","s","s","i","v","e","B","l","e","n","d","T","e","x","t","u","r","e","\"","\t","\t","\t","\"","v","g","u","i","/","w","h","i","t","e","\"">>,
      <<"\t","\t","\"","$","E","m","i","s","s","i","v","e","B","l","e","n","d","B","a","s","e","T","e","x","t","u","r","e","\"","\t","\t","\"">> \o materials_path \o <<"/">> \o base_name \o <<"_","E","\"">>,
      <<"\t","\t","\"","$","E","m","i","s","s","i","v","e","B","l","e","n","d","F","l","o","w","T","e","x","t","u","r","e","\"","\t","\t","\"","v","g","u","i","/","w","h","i","t","e","\"">>,
      <<"\t","\t","\"","$","E","m","i","s","s","i","v","e","B","l","e","n","d","T","i","n","t","\"","\t","\t","\t","\t","\"","["," ","1"," ","1"," ","1"," ","]","\"">>,
      <<"\t","\t","\"","$","E","m","i","s","s","i","v","e","B","l","e","n","d","S","c","r","o","l","l","V","e","c","t","o","r","\"","\t","\t","\"","["," ","0"," ","0"," ","]","\"">>,
      <<"\t","}">>,
      <<"\t","r","e","p","l","a","c","e">>,
      <<"\t","{">>,
      <<"\t","\t","\"","$","b","a","s","e","t","e","x","t","u","r","e","\""," ","\"">> \o materials_path \o <<"/">> \o base_name \o <<"\"">>,
      <<"\t","\t","\"","$","s","e","l","f","i","l","l","u","m","\"","\t","\t","\t","\t","\t","\"","0","\"">>,
      <<"\t","}">>,
      <<"}">>,
      <<>>>>

s_emissiveblend == <<"\"","$","e","m","i","s","s","i","v","e","b","l","e","n","d">>
s_selfillum == <<"\"","$","s","e","l","f","i","l","l","u","m","\"">>

\* the two re.search of generate_emissive_vmt, a parameter taken to lie on a line
HasEmissive(lines) ==
    \E n \in 1..Len(lines) :
       \/ Contains(Lower(lines[n]), s_emissiveblend)
       \/ \E at \in 1..Len(lines[n]) :
             /\ StartsWith(From(Lower(lines[n]), at - 1), s_selfillum)
             /\ \E digit \in {"0", "1"} :
                   StartsWith(LStrip(From(lines[n], at - 1 + Len(s_selfillum))),
                              <<Q, digit, Q>>)

\* generate_emissive_vmt from the existing VMT on: the text it writes to the
\* glow directory, Absent when it writes none
generate_emissive_vmt(existing, materials_path, base_name) ==
    IF existing = Absent THEN create_new_patch_vmt(materials_path, base_name)
    ELSE IF HasEmissive(existing) THEN Absent
    ELSE IF TextContains(TextLower(existing), s_patch)
    THEN generate_patch_vmt_with_emissive(existing, materials_path, base_name)
    ELSE generate_standard_vmt_with_emissive(existing, materials_path, base_name)

\* an existing document that has its glow parameters, and a Patch document of
\* a replace section only
SelfillumDoc == StandardText(s_shader, <<<<<<"$","s","e","l","f","i","l","l","u","m">>, v_one>>>>)
ReplaceOnlyPatch == SubSeq(PatchB, 1, 3) \o SubSeq(PatchB, 8, Len(PatchB))

\* an existing document, written by hand, that has a glow parameter under a
\* bare key
BareEmissiveDoc ==
    <<<<Q>> \o s_shader \o <<Q>>,
      <<"{">>,
      <<"\t","$","E","m","i","s","s","i","v","e","B","l","e","n","d","E","n","a","b","l","e","d"," ","1">>,
      <<"}">>>>

\* the materials paths find_materials_path_for_nightglow gives, materials/ taken
\* off: unknown when it found none
MaterialsPaths == {<<"u","n","k","n","o","w","n">>, <<"x">>}

InitEmissive ==
    /\ NoFiles
    /\ NoMaterialTool
    /\ material_name \in Materials
    /\ relative_path \in MaterialsPaths
    /\ existing_content \in ExistingDocs \cup {SelfillumDoc, ReplaceOnlyPatch,
                                                BareEmissiveDoc, Absent}
    /\ vmt_file = existing_content
    /\ op = "none"
    /\ generated_vmt = Absent
    /\ existing_params = <<>>
    /\ generated_params = <<>>
    /\ merged_params = <<>>
    /\ vmt_content = Absent
    /\ reparsed = <<>>
    /\ raised = "none"
    /\ runs = 0

\* VTFMaterialTool.generate_emissive_vmt(emissive_dir, base_name, original_work_dir),
\* the material's VMT in the work directory being vmt_file
GenerateEmissiveVmt ==
    /\ op = "none"
    /\ op' = "generate_emissive_vmt"
    /\ vmt_content' = generate_emissive_vmt(existing_content, relative_path, material_name)
    /\ UNCHANGED <<vmt_file, material_name, relative_path, existing_content, generated_vmt,
                   existing_params, generated_params, merged_params, reparsed, raised,
                   runs, io_vars, tool_vars>>

\* a later run over the folder: rglob hands the thread the VTF of the glow
\* directory, and NightglowProcessingThread.generate_vmt_file takes the VMT
\* beside it, the document the run before wrote, as the existing one;
\* materials_path is what find_materials_path_for_nightglow gives there
GenerateVmtFile ==
    /\ op \in {"generate_emissive_vmt", "generate_vmt_file"}
    /\ vmt_content # Absent
    /\ runs < MaxRuns
    /\ \E materials_path \in MaterialsPaths :
          /\ relative_path' = materials_path
          /\ vmt_content' = generate_emissive_vmt(vmt_content, materials_path, material_name)
    /\ existing_content' = vmt_content
    /\ vmt_file' = vmt_content
    /\ op' = "generate_vmt_file"
    /\ runs' = runs + 1
    /\ UNCHANGED <<material_name, generated_vmt, existing_params, generated_params,
                   merged_params, reparsed, raised, io_vars, tool_vars>>

NextEmissive == GenerateEmissiveVmt \/ GenerateVmtFile

SpecEmissive == InitEmissive /\ [][NextEmissive]_vars

\* ------------------------------------------ documents, read by their grammar

\* the end of the first token of t, a line without leading spaces: the place of
\* its closing quote when it opens with a quote, of its last character otherwise
TokenEnd(t) ==
    IF t[1] = Q THEN NthChar(t, Q, 2)
    ELSE (CHOOSE i \in 1..(Len(t) + 1) :
             /\ i = Len(t) + 1 \/ IsSpace(t[i])
             /\ \A j \in 1..(i - 1) : ~IsSpace(t[j])) - 1

\* the first token of s, a quoted string without its quotes or a bare word
FirstToken(s) ==
    Let(LStrip(s), LAMBDA t :
        IF t = <<>> THEN <<>>
        ELSE IF t[1] = Q THEN SubSeq(t, 2, TokenEnd(t) - 1)
        ELSE SubSeq(t, 1, TokenEnd(t)))

\* s after its first token
AfterFirstToken(s) ==
    Let(LStrip(s), LAMBDA t : IF t = <<>> THEN <<>> ELSE SubSeq(t, TokenEnd(t) + 1, Len(t)))

\* the <<key, value>> pairs a document writes, a line each, in the order written:
\* the key a quoted or bare token that starts with $, the value the next token
DocParams(text) ==
    Let(SelectSeq(text, LAMBDA line : StartsWith(FirstToken(line), <<"$">>)), LAMBDA hits :
        [i \in 1..Len(hits) |-> <<FirstToken(hits[i]), FirstToken(AfterFirstToken(hits[i]))>>])

\* the keys a document writes, lower-cased
DocKeys(text) == {Lower(DocParams(text)[i][1]) : i \in 1..Len(DocParams(text))}

\* the first token of the document
HeadToken(text) ==
    Let(SelectSeq(text, LAMBDA line : Strip(line) # <<>>), LAMBDA lines :
        IF lines = <<>> THEN <<>> ELSE FirstToken(lines[1]))

\* the document is of the Patch variant: it opens with the word patch
IsPatchDoc(text) == Lower(HeadToken(text)) = s_patch

\* the include paths a document writes
IncludePaths(text) ==
    {FirstToken(AfterFirstToken(text[i])) : i \in
        {j \in 1..Len(text) : Lower(FirstToken(text[j])) = s_include}}

\* a smart merge ran and returned its merged document
SmartMerged == op \in {"smart_merge_vmt", "smart_merge_batch_vmt"} /\ raised = "none"

\* one of the three merges ran and returned its merged document
Merged == op \in {"smart_merge_vmt", "smart_merge_batch_vmt", "merge_vmt_files"}
          /\ raised = "none"

\* a conversion run found an existing VMT
RanOnExisting == op \in {"single", "batch"} /\ existing_content # Absent

\* the value names the material
NamesMaterial(value) == Contains(Lower(value), Lower(material_name))

\* the key is one the merge that ran takes for derived whatever the values are
KnownDerived(k) ==
    IF op = "smart_merge_vmt"
    THEN \/ \E keyword \in pbr_semantic_keywords : Contains(Lower(k), keyword)
         \/ Lower(k) \in common_pbr_params
    ELSE \E keyword \in pbr_keywords : Contains(Lower(k), keyword)

\* some parameter of params under a name equal to k but for letter case names
\* the material in its value
NamedUnder(params, k) ==
    \E i \in 1..Len(params) : Lower(params[i][1]) = Lower(k) /\ NamesMaterial(params[i][2])

\* the parameter keeps its existing value in the merged set
Kept(p) == DictHas(merged_params, p[1]) /\ DictGet(merged_params, p[1]) = p[2]

\* ------------------------------------------------------------------- claims

C2_NoDataLoss ==
    RanOnExisting => DocKeys(existing_content) \subseteq DocKeys(vmt_content)

\* C3 as stated: after a conversion run that found an existing VMT, every
\* parameter of the generated document whose key the existing document did not
\* write stands in the written result with the generated value
C3_NewKeyAddition ==
    RanOnExisting =>
        \A i \in 1..Len(DocParams(generated_vmt)) :
            Lower(DocParams(generated_vmt)[i][1]) \notin DocKeys(existing_content)
                => \E j \in 1..Len(DocParams(vmt_content)) :
                      /\ Lower(DocParams(vmt_content)[j][1]) = Lower(DocParams(generated_vmt)[i][1])
                      /\ DocParams(vmt_content)[j][2] = DocParams(generated_vmt)[i][2]

HoldsPatchWords(text) ==
    TextContains(TextLower(text), s_patch) /\ TextContains(TextLower(text), s_include)

NewKeys == SelectSeq(DictKeys(generated_params), LAMBDA g : ~DictHas(existing_params, g))

C7_ShapePreservation ==
    RanOnExisting => (IsPatchDoc(vmt_content) <=> IsPatchDoc(existing_content))

\* C8 as stated: after a conversion run that found an existing Patch document,
\* the written document holds the existing include path, and $basetexture in it
\* has the generated value
C8_IncludeRetention ==
    (RanOnExisting /\ IsPatchDoc(existing_content)) =>
        /\ IncludePaths(vmt_content) = IncludePaths(existing_content)
        /\ \A i \in 1..Len(DocParams(generated_vmt)) :
              DocParams(generated_vmt)[i][1] = k_basetexture
                  => \E j \in 1..Len(DocParams(vmt_content)) :
                        DocParams(vmt_content)[j] = DocParams(generated_vmt)[i]

\* C9: a single-file run that found no existing VMT writes the generated
\* template as it is
C9_FirstTimeGeneration ==
    (op = "single" /\ existing_content = Absent) =>
        /\ generated_vmt =
               generate_l4d2_vmt_with_materials_detection(material_name, relative_path)
        /\ vmt_content = generated_vmt
        /\ vmt_file = generated_vmt

\* the first run for a material wrote its template
C9_Witness ==
    /\ op = "single"
    /\ runs = 1
    /\ existing_content = Absent
    /\ vmt_file = generate_l4d2_vmt_with_materials_detection(material_name, relative_path)

\* one of the parsers was called on the existing document
Parsed == op \in {"parse_vmt_params", "parse_patch_vmt_params"}

Braces(text) ==
    LET upto[i \in 0..Len(text)] ==
            IF i = 0 THEN <<>>
            ELSE upto[i - 1] \o SelectSeq(text[i], LAMBDA c : c \in {"{", "}"})
    IN upto[Len(text)]

\* as many opening as closing braces, and before no place more closing than opening
Balanced(text) ==
    Let(Braces(text), LAMBDA b :
        /\ CountChar(b, "{") = CountChar(b, "}")
        /\ \A n \in 1..Len(b) :
              CountChar(SubSeq(b, 1, n), "}") <= CountChar(SubSeq(b, 1, n), "{"))

\* C12 as stated: the document generate_emissive_vmt writes to the glow
\* directory has balanced braces
C12_BalancedBraces ==
    (op = "generate_emissive_vmt" /\ vmt_content # Absent) => Balanced(vmt_content)

\* the lines of a document that open with the word, whatever its letter case
LinesOf(text, word) == {i \in 1..Len(text) : Lower(FirstToken(text[i])) = word}

\* C13 as stated: a Patch document that generate_emissive_vmt writes has an
\* include line, an insert section and a replace section, insert before replace
C13_PatchSections ==
    (op = "generate_emissive_vmt" /\ IsPatchDoc(vmt_content)) =>
        /\ LinesOf(vmt_content, s_include) # {}
        /\ \E i \in LinesOf(vmt_content, s_insert) :
              \E j \in LinesOf(vmt_content, s_replace) : i < j

\* C14: parsing or merging a Patch document without an include path raises
\* MissingRequiredSection
C14_MissingInclude_AsStated ==
    (op # "none" /\ existing_content = NoIncludePatch) => raised = "MissingRequiredSection"

\* what the code does on a Patch document without an include path: no parser
\* and no merge raises, each reads the parameters of its insert and replace sections, and a
\* merge returns a Standard document, which has no include
PatchWithoutIncludeAccepted ==
    (op # "none" /\ existing_content = NoIncludePatch) =>
        /\ raised = "none"
        /\ existing_params = <<<<k_detail, v_old>>, <<k_basetexture, v_old>>>>
        /\ Merged => /\ HeadToken(vmt_content) = s_shader
                     /\ IncludePaths(vmt_content) = {}

\* the batch merge of a Patch document without include gave a Standard document
PatchWithoutIncludeMerged ==
    /\ op = "smart_merge_batch_vmt"
    /\ existing_content = NoIncludePatch
    /\ raised = "none"
    /\ HeadToken(vmt_content) = s_shader
    /\ Len(merged_params) >= 2

\* the file of the directory the last run or loop turn worked on
CurrentFile == output_dir[CHOOSE s \in Stems : StemName(s) = material_name]

\* C15: when the write of the output VMT fails (at open, during the write or at
\* close), the file that was at the output path still holds its previous content
C15_SafeWrite ==
    (op \in {"single", "batch"} /\ written \in {"open", "write"}
        /\ existing_content # Absent) =>
        CurrentFile = existing_content

\* ------------------------------- the material page of vtf_material_tool.py

\* the images a press of the button can find chosen
MaxFiles == 2

\* the stem of the i-th image chosen
RECURSIVE BaseName(_)
BaseName(i) == IF i = 0 THEN <<>> ELSE BaseName(i - 1) \o <<"a">>

\* the images: the alpha type analyze_alpha_channel finds in each, and whether
\* its stem holds a word of the blacklist (its alpha type is then never looked at)
ImageFiles ==
    {[alpha_type |-> t, is_blocked |-> FALSE] : t \in AlphaTypes}
    \cup {[alpha_type |-> "no_alpha", is_blocked |-> TRUE]}

MaterialFileLists == UNION {[1..n -> ImageFiles] : n \in 0..MaxFiles}

s_materials_prefix == <<"m","a","t","e","r","i","a","l","s","/">>

alphatest_config == <<"\"","$","a","l","p","h","a","t","e","s","t","\""," ","\"","1","\"">>

translucent_config == <<"\"","$","t","r","a","n","s","l","u","c","e","n","t","\""," ","\"","1","\"">>

\* the <<format, VMT configuration>> of an alpha type in auto mode
get_optimal_format_and_vmt(alpha_type) ==
    CASE alpha_type = "no_alpha" -> <<"DXT1", <<>>>>
      [] alpha_type = "binary_alpha" -> <<"DXT3", alphatest_config>>
      [] alpha_type = "gradient_alpha" -> <<"DXT5", translucent_config>>
      [] OTHER -> <<"DXT1", <<>>>>

\* a custom mode that gives black-and-white alpha its parameter whatever the
\* format chosen for it
get_custom_format_and_vmt_any(alpha_type, custom_vars) ==
    LET format_name == custom_vars[IF alpha_type \in DOMAIN custom_vars
                                   THEN alpha_type ELSE "no_alpha"]
    IN  CASE alpha_type = "binary_alpha" -> <<format_name, alphatest_config>>
          [] alpha_type = "gradient_alpha" /\ format_name \in {"DXT5", "RGBA8888"} ->
                <<format_name, translucent_config>>
          [] OTHER -> <<format_name, <<>>>>

\* the <<format, VMT configuration>> of an alpha type in custom mode: an alpha
\* type that is none of the three takes the format chosen for no alpha
get_custom_format_and_vmt(alpha_type, custom_vars) ==
    LET format_name == custom_vars[IF alpha_type \in DOMAIN custom_vars
                                   THEN alpha_type ELSE "no_alpha"]
    IN  CASE alpha_type = "binary_alpha" /\ format_name \in {"DXT3", "DXT5"} ->
                <<format_name, alphatest_config>>
          [] alpha_type = "gradient_alpha" /\ format_name \in {"DXT5", "RGBA8888"} ->
                <<format_name, translucent_config>>
          [] OTHER -> <<format_name, <<>>>>

\* what the loop of the worker stores in self.vmt_alpha_config for an image
worker_alpha_config(mode, alpha_type, custom_vars) ==
    CASE mode = "auto" -> get_optimal_format_and_vmt(alpha_type)[2]
      [] mode = "custom" -> get_custom_format_and_vmt(alpha_type, custom_vars)[2]
      [] OTHER -> <<>>

\* the document generate_normal_vmt_file writes, alpha_config what its getattr
\* finds in self.vmt_alpha_config (None and "" both leave the line empty)
generate_normal_vmt_file(alpha_config, base_name, materials_path) ==
    <<<<"p","a","t","c","h">>,
      <<"{">>,
      <<"\t","i","n","c","l","u","d","e","\t","\"","m","a","t","e","r","i","a","l","s","/">> \o materials_path \o <<"/","s","h","a","d","e","r","/","v","m","t","-","b","a","s","e",".","v","m","t","\"">>,
      <<"\t","i","n","s","e","r","t">>,
      <<"\t","{">>,
      IF alpha_config # <<>> THEN <<"\t">> \o alpha_config ELSE <<>>,
      <<"\t","}">>,
      <<"\t","r","e","p","l","a","c","e">>,
      <<"\t","{">>,
      <<"\t","\"","$","b","a","s","e","t","e","x","t","u","r","e","\""," ","\"">> \o materials_path \o <<"/">> \o base_name \o <<"\"">>,
      <<"\t","}">>,
      <<"}">>,
      <<>>>>

\* where the worker stands after a step of its loop raised: the try is around
\* the whole loop, so the thread shows the error and ends
worker_except == "ended"

InitMaterial ==
    /\ NoFiles
    /\ vmt_file = Absent
    /\ material_name = <<>>
    /\ relative_path = <<>>
    /\ op = "none"
    /\ existing_content = Absent
    /\ generated_vmt = Absent
    /\ existing_params = <<>>
    /\ generated_params = <<>>
    /\ merged_params = <<>>
    /\ vmt_content = Absent
    /\ reparsed = <<>>
    /\ raised = "none"
    /\ runs = 0
    /\ material_files \in MaterialFileLists
    /\ \E chosen \in {<<"auto", default_formats>>,
                       <<"custom", [default_formats EXCEPT !["gradient_alpha"] = "DXT3"]>>,
                       <<"manual", default_formats>>} :
          /\ material_format_mode_var = chosen[1]
          /\ custom_format_vars = chosen[2]
    /\ vmt_alpha_config = <<>>
    /\ threads = [w \in Workers |-> Idle]
    /\ cdmaterials_var \in {<<>>, s_materials_prefix \o <<"x">>}
    /\ materials_dir = [i \in 1..Len(material_files) |-> Absent]
    /\ messagebox = {}

\* VTFMaterialTool.process_material, a press of the button: without an image it
\* shows an error, else it starts a worker thread, which checks the materials path
\* before its loop (the output directory is set and the images exist)
ProcessMaterial(w) ==
    /\ threads[w].pc = "idle"
    /\ IF material_files = <<>>
       THEN /\ messagebox' = messagebox \cup {<<"ui", "showerror">>}
            /\ threads' = [threads EXCEPT ![w].pc = "ended"]
       ELSE IF cdmaterials_var = <<>>
       THEN /\ messagebox' = messagebox \cup {<<w, "showerror">>}
            /\ threads' = [threads EXCEPT ![w].pc = worker_except]
       ELSE /\ messagebox' = messagebox
            /\ threads' = [threads EXCEPT ![w] =
                   [pc |-> "loop", i |-> 1, processed_count |-> 0,
                    materials_path |->
                        IF StartsWith(cdmaterials_var, s_materials_prefix)
                        THEN From(cdmaterials_var, 10)
                        ELSE cdmaterials_var]]
    /\ op' = "process_material"
    /\ UNCHANGED <<vmt_file, material_name, relative_path, existing_content, generated_vmt,
                   existing_params, generated_params, merged_params, vmt_content,
                   reparsed, raised, runs, io_vars, material_files,
                   material_format_mode_var, custom_format_vars, vmt_alpha_config,
                   cdmaterials_var, materials_dir>>

\* the head of a turn of the worker's loop, up to the call of VTFCmd: the end of
\* the loop with its message, a blocked image skipped, or the alpha type found
\* and its configuration stored in self.vmt_alpha_config
WorkerClassify(w) ==
    /\ threads[w].pc = "loop"
    /\ LET i == threads[w].i
       IN IF i > Len(material_files)
          THEN /\ threads' = [threads EXCEPT ![w].pc = "ended"]
               /\ messagebox' = messagebox \cup {<<w, "showinfo">>}
               /\ UNCHANGED vmt_alpha_config
          ELSE IF material_files[i].is_blocked
          THEN /\ threads' = [threads EXCEPT ![w].i = i + 1]
               /\ UNCHANGED <<messagebox, vmt_alpha_config>>
          ELSE /\ threads' = [threads EXCEPT ![w].pc = "convert",
                                             ![w].processed_count = @ + 1]
               /\ vmt_alpha_config' =
                      worker_alpha_config(material_format_mode_var,
                                          material_files[i].alpha_type, custom_format_vars)
               /\ UNCHANGED messagebox
    /\ op' = "classify"
    /\ UNCHANGED <<vmt_file, material_name, relative_path, existing_content, generated_vmt,
                   existing_params, generated_params, merged_params, vmt_content,
                   reparsed, raised, runs, io_vars, material_files,
                   material_format_mode_var, custom_format_vars, cdmaterials_var,
                   materials_dir>>

\* the rest of the turn: VTFCmd converts the image, returncode_ok whether it
\* returned 0, and generate_vmt_files writes the VMT with what
\* self.vmt_alpha_config holds by then; a failure is raised out of the loop
WorkerConvert(w) ==
    /\ threads[w].pc = "convert"
    /\ \E returncode_ok \in BOOLEAN :
       LET i == threads[w].i
       IN IF returncode_ok
          THEN /\ materials_dir' =
                     [materials_dir EXCEPT ![i] =
                         generate_normal_vmt_file(vmt_alpha_config, BaseName(i),
                                                  threads[w].materials_path)]
               /\ threads' = [threads EXCEPT ![w].pc = "loop", ![w].i = i + 1]
               /\ UNCHANGED messagebox
          ELSE /\ threads' = [threads EXCEPT ![w].pc = worker_except]
               /\ messagebox' = messagebox \cup {<<w, "showerror">>}
               /\ UNCHANGED materials_dir
    /\ op' = "convert"
    /\ UNCHANGED <<vmt_file, material_name, relative_path, existing_content, generated_vmt,
                   existing_params, generated_params, merged_params, vmt_content,
                   reparsed, raised, runs, io_vars, material_files,
                   material_format_mode_var, custom_format_vars, vmt_alpha_config,
                   cdmaterials_var>>

NextMaterial ==
    \E w \in Workers : ProcessMaterial(w) \/ WorkerClassify(w) \/ WorkerConvert(w)

SpecMaterial == InitMaterial /\ [][NextMaterial]_vars

\* C16: in a batch, a failure while processing one file is reported for that file
\* only and every later file of the batch is still processed: a worker that has
\* ended has taken every image of the list
C16_ErrorIsolation ==
    \A w \in Workers :
        (threads[w].pc = "ended" /\ threads[w].i >= 1) =>
            \A j \in 1..Len(material_files) : j <= threads[w].i

\* the transparency line of the document written for the i-th image
TransparencyLine(i) == materials_dir[i][6]

\* the transparency line that the alpha type of the i-th image asks for
OwnTransparencyLine(i) ==
    LET alpha_config == worker_alpha_config(material_format_mode_var,
                                            material_files[i].alpha_type,
                                            custom_format_vars)
    IN  IF alpha_config # <<>> THEN <<TAB>> \o alpha_config ELSE <<>>

\* C17: the transparency parameter written into a material's VMT is the one of
\* that material's own alpha classification, whatever the threads interleave
C17_NoSharedState ==
    \A i \in 1..Len(material_files) :
        materials_dir[i] # Absent => TransparencyLine(i) = OwnTransparencyLine(i)

\* no two entries of a parameter set have keys equal but for the case of letters
UniqueKeys(params) ==
    \A i, j \in 1..Len(params) : Lower(params[i][1]) = Lower(params[j][1]) => i = j

\* C18: every parameter set that parsing or merging produced has no two keys that
\* are equal under case-insensitive comparison
C18_KeyUniqueness ==
    op # "none" =>
        /\ UniqueKeys(existing_params)
        /\ UniqueKeys(generated_params)
        /\ UniqueKeys(merged_params)

\* the values params holds under the names equal to k but for letter case
ValuesUnder(params, k) ==
    {params[i][2] : i \in {j \in 1..Len(params) : Lower(params[j][1]) = Lower(k)}}

\* C19: for every generated key that is a known derived key, or whose existing
\* value names the material, the merged set holds under that key, looked up
\* without regard to letter case, the generated value
C19_DerivedOverwrite ==
    SmartMerged =>
        \A i \in 1..Len(generated_params) :
            (\/ KnownDerived(generated_params[i][1])
             \/ NamedUnder(existing_params, generated_params[i][1]))
                => ValuesUnder(merged_params, generated_params[i][1])
                       = {generated_params[i][2]}

\* the backup file of the material the last run or loop turn worked on: the
\* single run keeps it in pbr_converted/, the batch beside the document
BackupFile ==
    IF op = "single"
    THEN IF pbr_converted.exists THEN pbr_converted.files[material_name] ELSE Absent
    ELSE LET original == OriginalOf(CHOOSE s \in Stems : StemName(s) = material_name)
         IN  IF original \in Stems THEN output_dir[original] ELSE Absent

\* C20: after a single or batch conversion that found an existing VMT and wrote
\* its output, <material>_original.vmt exists and holds the content the existing
\* VMT had before the conversion
C20_BackupOfOriginal ==
    (op \in {"single", "batch"} /\ existing_content # Absent /\ written = "ok") =>
        BackupFile = existing_content

\* C21: the Standard parser reads every pair whose key is a quoted or bare token
\* that starts with $: every parameter the generated template writes stands in
\* the generated parameter set that the merge of a single run works on
C21_TemplateParsed ==
    (op = "single" /\ existing_content # Absent) =>
        \A i \in 1..Len(DocParams(generated_vmt)) :
            \E j \in 1..Len(generated_params) :
                generated_params[j] = DocParams(generated_vmt)[i]

\* the first and the last place of key k in the pairs
FirstOf(pairs, k) == CHOOSE i \in 1..Len(pairs) :
                        pairs[i][1] = k /\ \A j \in 1..(i - 1) : pairs[j][1] # k

LastOf(pairs, k) == CHOOSE i \in 1..Len(pairs) :
                       pairs[i][1] = k /\ \A j \in (i + 1)..Len(pairs) : pairs[j][1] # k

\* params holds each key of pairs once, at the place of its first occurrence
OnceInFirstOrder(params, pairs) ==
    /\ {params[i][1] : i \in 1..Len(params)} = {pairs[i][1] : i \in 1..Len(pairs)}
    /\ \A i, j \in 1..Len(params) :
          i < j => FirstOf(pairs, params[i][1]) < FirstOf(pairs, params[j][1])

\* the pairs a Patch document in the tool's layout writes in its replace section
ReplaceParams(text) ==
    LET at == {i \in 1..Len(text) : Lower(Strip(text[i])) = s_replace}
    IN  IF at = {} THEN <<>>
        ELSE DocParams(SubSeq(text, CHOOSE i \in at : TRUE, Len(text)))

\* the documents whose parameter lines each parser reads in full: the Standard
\* ones by the Standard parsers, the Patch ones in the tool's layout by
\* parse_patch_vmt_params
StandardRead ==
    /\ op \in {"smart_merge_vmt", "smart_merge_batch_vmt", "merge_vmt_files",
               "parse_vmt_params"}
    /\ raised = "none"
    /\ existing_content \in StandardDocs \cup {UnlitDoc, DuplicateDoc}

PatchRead ==
    /\ op = "parse_patch_vmt_params"
    /\ existing_content \in
          {PatchText(s_base_vmt, <<>>, <<<<k_basetexture, v_old>>>>), PatchB,
           PatchText(s_base_vmt, <<<<k_detail, v_old>>>>, <<<<k_detail, v_new>>>>),
           DuplicateInsertPatch, NoIncludePatch}

InsertParams(text) ==
    LET from == {i \in 1..Len(text) : Lower(Strip(text[i])) = s_insert}
        to == {i \in 1..Len(text) : Lower(Strip(text[i])) = s_replace}
    IN  IF from = {} THEN <<>>
        ELSE DocParams(SubSeq(text, CHOOSE i \in from : TRUE,
                              IF to = {} THEN Len(text) ELSE (CHOOSE i \in to : TRUE) - 1))

\* the keys both sections of a Patch document write
KeysOfBothSections(text) ==
    {InsertParams(text)[i][1] : i \in 1..Len(InsertParams(text))}
    \cap {ReplaceParams(text)[i][1] : i \in 1..Len(ReplaceParams(text))}

\* C23: after the merge of a Patch existing document, a key that its insert and
\* its replace section both write has an entry in the insert section and an
\* entry in the replace section of the result
C23_SectionsIndependent ==
    SmartMerged =>
        \A k \in KeysOfBothSections(existing_content) :
            /\ \E i \in 1..Len(InsertParams(vmt_content)) : InsertParams(vmt_content)[i][1] = k
            /\ \E i \in 1..Len(ReplaceParams(vmt_content)) : ReplaceParams(vmt_content)[i][1] = k

\* --------------------------------------- Patch documents and their includes

s_a_vmt == <<"a",".","v","m","t">>

s_b_vmt == <<"b",".","v","m","t">>

\* the Patch documents parsed, in the tool's layout, by the file they include
IncludingDocs ==
    {PatchB,
     PatchText(s_base_vmt, <<>>, <<<<k_basetexture, v_old>>>>),
     PatchText(s_base_vmt, <<<<k_detail, v_old>>>>, <<<<k_detail, v_new>>>>),
     PatchText(s_a_vmt, <<<<k_detail, v_old>>>>, <<>>),
     PatchText(s_b_vmt, <<>>, <<<<k_basetexture, v_new>>>>),
     NoIncludePatch}

\* a Standard base document
StandardBase == StandardText(s_shader, <<<<k_phong, v_one>>, <<k_detail, v_new>>>>)

\* the files that can lie where the include paths point: none, a Standard base,
\* a file that includes itself, two files that include each other, a base that
\* includes a Standard file of its own directory, and a base that names a file
\* lying in the directory of the document instead
FileSystems ==
    {IncludeFiles,
     [p \in {s_base_vmt} |-> StandardBase],
     [p \in {s_a_vmt} |-> PatchText(s_a_vmt, <<<<k_surfaceprop, v_metal>>>>, <<>>)],
     [p \in {s_a_vmt, s_b_vmt} |->
         IF p = s_a_vmt
         THEN PatchText(s_b_vmt, <<>>, <<<<k_surfaceprop, v_metal>>>>)
         ELSE PatchText(s_a_vmt, <<<<k_phong, v_one>>>>, <<>>)],
     [p \in {s_base_vmt, JoinPath(Parent(s_base_vmt), s_a_vmt)} |->
         IF p = s_base_vmt
         THEN PatchText(s_a_vmt, <<>>, <<<<k_surfaceprop, v_metal>>>>)
         ELSE StandardBase],
     [p \in {s_base_vmt, s_a_vmt} |->
         IF p = s_base_vmt
         THEN PatchText(s_a_vmt, <<>>, <<<<k_surfaceprop, v_metal>>>>)
         ELSE StandardBase]}

InitInclude ==
    /\ NoMaterialTool
    /\ output_dir = [s \in Stems |-> Absent]
    /\ started_dir = output_dir
    /\ pbr_converted = NoDirectory
    /\ pending = {}
    /\ written = "none"
    /\ progress = {}
    /\ signal = "none"
    /\ processed_count = 0
    /\ failed_count = 0
    /\ include_files \in FileSystems
    /\ vmt_files = <<>>
    /\ attempted = <<>>
    /\ NoRun
    /\ material_name \in Materials
    /\ relative_path = <<>>
    /\ existing_content \in IncludingDocs
    /\ generated_vmt = Absent
    /\ op = "none"
    /\ vmt_file = existing_content
    /\ existing_params = <<>>
    /\ generated_params = <<>>
    /\ merged_params = <<>>
    /\ vmt_content = Absent
    /\ reparsed = <<>>
    /\ raised = "none"
    /\ runs = 0

\* L4D2BatchProcessingThread.parse_patch_vmt_params(existing_content, base_dir)
\* with the files of include_files under base_dir
CallParsePatchVmtParamsIn ==
    /\ op = "none"
    /\ op' = "parse_patch_vmt_params"
    /\ existing_params' = parse_patch_vmt_params(existing_content, <<>>, include_files,
                                                 RecursionLimit)
    /\ raised' = "none"
    /\ UNCHANGED <<vmt_file, material_name, relative_path, existing_content,
                   generated_vmt, generated_params, merged_params, vmt_content,
                   reparsed, runs, io_vars, tool_vars>>

\* L4D2BatchProcessingThread._load_include_file(include_path, base_dir) for the
\* include path the document writes
CallLoadIncludeFile ==
    /\ op = "none"
    /\ IncludePaths(existing_content) # {}
    /\ op' = "load_include_file"
    /\ \E include_path \in IncludePaths(existing_content) :
          existing_params' = load_include_file(include_path, <<>>, include_files,
                                               RecursionLimit)
    /\ raised' = "none"
    /\ UNCHANGED <<vmt_file, material_name, relative_path, existing_content,
                   generated_vmt, generated_params, merged_params, vmt_content,
                   reparsed, runs, io_vars, tool_vars>>

\* L4D2ProcessingThread.parse_vmt_params(existing_content), which opens no file
CallParseVmtParamsIn ==
    /\ op = "none"
    /\ op' = "parse_vmt_params"
    /\ existing_params' = parse_vmt_params(existing_content)
    /\ raised' = "none"
    /\ UNCHANGED <<vmt_file, material_name, relative_path, existing_content,
                   generated_vmt, generated_params, merged_params, vmt_content,
                   reparsed, runs, io_vars, tool_vars>>

NextInclude == CallParsePatchVmtParamsIn \/ CallLoadIncludeFile \/ CallParseVmtParamsIn

SpecInclude == InitInclude /\ [][NextInclude]_vars

\* the pairs params holds are all among pairs
PairsAmong(params, pairs) ==
    \A i \in 1..Len(params) : \E j \in 1..Len(pairs) : params[i] = pairs[j]

ValueIn(pairs, k) ==
    IF \E i \in 1..Len(pairs) : pairs[i][1] = k THEN pairs[LastOf(pairs, k)][2] ELSE None

conversion_vars ==
    <<vmt_file, material_name, relative_path, op, existing_content, generated_vmt,
      existing_params, generated_params, merged_params, vmt_content, reparsed, raised,
      runs, output_dir, started_dir, pbr_converted, pending, written, progress, signal,
      processed_count, failed_count, include_files, vmt_files, attempted, tool_vars>>

\* no merge function was called
NoOperation ==
    /\ vmt_file = Absent
    /\ material_name = <<>>
    /\ relative_path = <<>>
    /\ op = "none"
    /\ existing_content = Absent
    /\ generated_vmt = Absent
    /\ existing_params = <<>>
    /\ generated_params = <<>>
    /\ merged_params = <<>>
    /\ vmt_content = Absent
    /\ reparsed = <<>>
    /\ raised = "none"
    /\ runs = 0

\* no conversion ran
NoConversion == NoOperation /\ NoBatch /\ NoMaterialTool

\* the files a thread's list holds at most
MaxThreadFiles == 2

\* what process_nightglow_file finds of a file: it is there, it is gone by the
\* time its turn comes, or its name holds a word of the blacklists
FileKinds == {"present", "missing", "blacklisted"}

\* the lists of files a thread is made with
FileLists(kinds) == UNION {[1..n -> kinds] : n \in 0..MaxThreadFiles}

\* what process_vmte_glow comes back with: "True" with the E texture and the VMT
\* generated, "False" where the texture has no usable alpha channel, "None" from
\* its bare returns (E blacklist, no VTFCmd, a failed export), and "raised" for
\* the False of its except branch, the E texture written before the exception
EGlowOutcomes == {"True", "False", "None", "raised"}

\* the steps of the S-glow path, in the order process_nightglow_file writes them
s_glow_steps == <<"mkdir", "vtf_to_tga", "adjust_alpha_channel", "tga_to_vtf", "unlink">>

\* an S-glow path that goes on to the next step whatever the step came back with
s_glow_next_unchecked(step, ok) ==
    IF step = "unlink" THEN "cleanup"
    ELSE s_glow_steps[1 + CHOOSE i \in 1..Len(s_glow_steps) : s_glow_steps[i] = step]

\* where process_nightglow_file stands after a step of the S-glow path: before
\* the next step, or at `return False` when the step came back False or raised
s_glow_next(step, ok) ==
    IF ~ok THEN "return_False"
    ELSE IF step = "unlink" THEN "cleanup"
    ELSE s_glow_steps[1 + CHOOSE i \in 1..Len(s_glow_steps) : s_glow_steps[i] = step]

\* a run that reports success whatever the flag says
end_signal_unchecked(cancelled) == <<"processing_finished", TRUE>>

\* the signal at the end of run
end_signal(cancelled) == <<"processing_finished", ~cancelled>>

InitGlow ==
    /\ NoConversion
    /\ thread_class \in {"NightglowProcessingThread", "ImageProcessingThread"}
    /\ thread_files \in (IF thread_class = "NightglowProcessingThread"
                         THEN FileLists(FileKinds) ELSE FileLists({"present"}))
    /\ thread_options \in (IF thread_class = "NightglowProcessingThread"
                           THEN [vmte_glow : BOOLEAN, modify_vmtbase : BOOLEAN]
                           ELSE {[vmte_glow |-> FALSE, modify_vmtbase |-> FALSE]})
    /\ texture_paths = {}
    /\ is_cancelled = FALSE
    /\ file_index = 0
    /\ pc = "loop"
    /\ steps = <<>>
    /\ returned = "none"
    /\ e_glow_processed = FALSE
    /\ glow_processed_count = 0
    /\ emitted = <<>>
    /\ handled = 0
    /\ process_btn = FALSE

\* cancel(), from the thread of the window, at any moment of the run
Cancel ==
    /\ thread_class \in {"NightglowProcessingThread", "ImageProcessingThread"}
    /\ ~is_cancelled
    /\ is_cancelled' = TRUE
    /\ UNCHANGED <<thread_class, thread_files, thread_options, texture_paths, file_index,
                   pc, steps, returned, e_glow_processed, glow_processed_count, emitted,
                   handled, process_btn, conversion_vars>>

\* the head of the loop of run: out of it when the list is through or the flag is
\* set, else status_updated and into the processing of the next file
RunLoop ==
    /\ pc = "loop"
    /\ IF file_index = Len(thread_files) \/ is_cancelled
       THEN /\ pc' = "end"
            /\ UNCHANGED <<file_index, steps, returned, e_glow_processed>>
       ELSE /\ file_index' = file_index + 1
            /\ steps' = <<>>
            /\ returned' = "none"
            /\ e_glow_processed' = FALSE
            /\ pc' = IF thread_class = "NightglowProcessingThread"
                     THEN "process_nightglow_file" ELSE "process_single_file"
    /\ UNCHANGED <<thread_class, thread_files, thread_options, texture_paths,
                   is_cancelled, glow_processed_count, emitted, handled, process_btn,
                   conversion_vars>>

\* ImageProcessingThread.process_single_file
ProcessSingleFile ==
    /\ pc = "process_single_file"
    /\ steps' = Append(steps, <<"msleep", TRUE>>)
    /\ returned' = "None"
    /\ pc' = "progress"
    /\ UNCHANGED <<thread_class, thread_files, thread_options, texture_paths,
                   is_cancelled, file_index, e_glow_processed, glow_processed_count,
                   emitted, handled, process_btn, conversion_vars>>

\* process_nightglow_file up to the choice of the path: False for a file that is
\* not there or is blacklisted, else E-glow first where the option asks for it
ProcessNightglowFile ==
    /\ pc = "process_nightglow_file"
    /\ IF thread_files[file_index] # "present"
       THEN /\ returned' = "False"
            /\ pc' = "progress"
       ELSE /\ returned' = returned
            /\ pc' = IF thread_options.vmte_glow THEN "process_vmte_glow" ELSE "mkdir"
    /\ UNCHANGED <<thread_class, thread_files, thread_options, texture_paths,
                   is_cancelled, file_index, steps, e_glow_processed,
                   glow_processed_count, emitted, handled, process_btn, conversion_vars>>

\* e_glow_processed = self.process_vmte_glow(vtf_file) and the branch on it: True
\* returns True after modify_vmt_base where that option is set, anything else
\* leads into the S-glow path
ProcessVmteGlow ==
    /\ pc = "process_vmte_glow"
    /\ \E outcome \in EGlowOutcomes :
          /\ e_glow_processed' = (outcome = "True")
          /\ steps' = steps
                \o (IF outcome \in {"True", "raised"}
                    THEN <<<<"generate_e_texture", TRUE>>>> ELSE <<>>)
                \o <<<<"process_vmte_glow", outcome = "True">>>>
                \o (IF outcome = "True" /\ thread_options.modify_vmtbase
                    THEN <<<<"modify_vmt_base", TRUE>>>> ELSE <<>>)
          /\ IF outcome = "True"
             THEN /\ returned' = "True"
                  /\ pc' = "progress"
             ELSE /\ returned' = returned
                  /\ pc' = "mkdir"
    /\ UNCHANGED <<thread_class, thread_files, thread_options, texture_paths,
                   is_cancelled, file_index, glow_processed_count, emitted, handled,
                   process_btn, conversion_vars>>

\* one step of the S-glow path, which comes back True or not (False, or an
\* exception that process_nightglow_file answers with False)
SGlowStep(step) ==
    /\ pc = step
    /\ \E ok \in BOOLEAN :
       \E next \in {s_glow_next(step, ok)} :
          /\ steps' = Append(steps, <<step, ok>>)
          /\ IF next = "return_False"
             THEN /\ returned' = "False"
                  /\ pc' = "progress"
             ELSE /\ returned' = returned
                  /\ pc' = next
    /\ UNCHANGED <<thread_class, thread_files, thread_options, texture_paths,
                   is_cancelled, file_index, e_glow_processed, glow_processed_count,
                   emitted, handled, process_btn, conversion_vars>>

\* selfillum_dir.mkdir(exist_ok=True)
MakeSelfillumDir == SGlowStep("mkdir")

\* self.vtf_to_tga(vtf_file, str(tga_file))
VtfToTga == SGlowStep("vtf_to_tga")

\* self.adjust_alpha_channel(str(tga_file))
AdjustAlphaChannel == SGlowStep("adjust_alpha_channel")

\* self.tga_to_vtf(str(tga_file), str(output_vtf))
TgaToVtf == SGlowStep("tga_to_vtf")

\* tga_file.unlink() where the file is there
UnlinkTga == SGlowStep("unlink")

\* the end of the S-glow path: cleanup_tga_files_in_vtf_directory, modify_vmt_base
\* where that option is set (both answer their own exceptions), return True
CleanupAndReturn ==
    /\ pc = "cleanup"
    /\ steps' = steps \o <<<<"cleanup_tga_files_in_vtf_directory", TRUE>>>>
                \o (IF thread_options.modify_vmtbase
                    THEN <<<<"modify_vmt_base", TRUE>>>> ELSE <<>>)
    /\ returned' = "True"
    /\ pc' = "progress"
    /\ UNCHANGED <<thread_class, thread_files, thread_options, texture_paths,
                   is_cancelled, file_index, e_glow_processed, glow_processed_count,
                   emitted, handled, process_btn, conversion_vars>>

\* the rest of the turn: processed_count += 1 where the file returned True, and
\* progress_updated
RunProgress ==
    /\ pc = "progress"
    /\ glow_processed_count' = glow_processed_count + (IF returned = "True" THEN 1 ELSE 0)
    /\ pc' = "loop"
    /\ UNCHANGED <<thread_class, thread_files, thread_options, texture_paths,
                   is_cancelled, file_index, steps, returned, e_glow_processed, emitted,
                   handled, process_btn, conversion_vars>>

\* after the loop: processing_finished with True unless the flag is set
RunEnd ==
    /\ pc = "end"
    /\ emitted' = Append(emitted, end_signal(is_cancelled))
    /\ pc' = "done"
    /\ UNCHANGED <<thread_class, thread_files, thread_options, texture_paths,
                   is_cancelled, file_index, steps, returned, e_glow_processed,
                   glow_processed_count, handled, process_btn, conversion_vars>>

\* on_processing_finished of the tab, run by the event loop for a signal emitted
OnGlowFinished ==
    /\ thread_class \in {"NightglowProcessingThread", "ImageProcessingThread"}
    /\ handled < Len(emitted)
    /\ handled' = handled + 1
    /\ process_btn' = TRUE
    /\ UNCHANGED <<thread_class, thread_files, thread_options, texture_paths,
                   is_cancelled, file_index, pc, steps, returned, e_glow_processed,
                   glow_processed_count, emitted, conversion_vars>>

\* the steps of the thread
GlowThread ==
    \/ RunLoop
    \/ ProcessSingleFile
    \/ ProcessNightglowFile
    \/ ProcessVmteGlow
    \/ MakeSelfillumDir
    \/ VtfToTga
    \/ AdjustAlphaChannel
    \/ TgaToVtf
    \/ UnlinkTga
    \/ CleanupAndReturn
    \/ RunProgress
    \/ RunEnd

NextGlow == GlowThread \/ Cancel \/ OnGlowFinished

SpecGlow == InitGlow /\ [][NextGlow]_vars

\* the thread runs on as long as it has a step to take, and the event loop runs
\* the slot of a signal that was emitted
SpecGlowFair == SpecGlow /\ WF_vars(GlowThread) /\ WF_vars(OnGlowFinished)

\* the steps of the S-glow path run for the file in flight, in the order run
SGlowRun ==
    SelectSeq(steps, LAMBDA st : \E i \in 1..Len(s_glow_steps) : s_glow_steps[i] = st[1])

\* process_vmte_glow was called for the file in flight
EGlowTried == \E i \in 1..Len(steps) : steps[i][1] = "process_vmte_glow"

\* process_vmte_glow returned True for the file in flight
EGlowDone == \E i \in 1..Len(steps) : steps[i] = <<"process_vmte_glow", TRUE>>

\* every step of the S-glow path ran for the file in flight and came back True
SGlowDone ==
    /\ Len(SGlowRun) = Len(s_glow_steps)
    /\ \A i \in 1..Len(SGlowRun) : SGlowRun[i][2]

\* C25: night-glow processing of one file completes at most one of the two glow
\* paths, and exactly one where it returns True. E-glow is tried only where the
\* option enables it, and when it returns True no step of the S-glow path runs.
\* The S-glow steps run only with E-glow disabled or failed, in the order
\* Selfillum directory, VTF to TGA, alpha adjustment, TGA to VTF, deletion of the
\* TGA; a step that fails is the last one run and the file returns False. A
\* file that is there and not blacklisted, and whose E-glow did not return True,
\* has entered the S-glow path by the time it returns
C25_GlowPaths ==
    (thread_class = "NightglowProcessingThread" /\ file_index > 0) =>
        /\ EGlowTried => thread_options.vmte_glow
        /\ EGlowDone => SGlowRun = <<>>
        /\ \A i \in 1..Len(SGlowRun) :
              /\ SGlowRun[i][1] = s_glow_steps[i]
              /\ ~SGlowRun[i][2] => i = Len(SGlowRun) /\ returned = "False"
        /\ SGlowRun # <<>> =>
              IF thread_options.vmte_glow THEN EGlowTried /\ ~EGlowDone ELSE ~EGlowTried
        /\ returned = "True" => (EGlowDone /\ ~SGlowDone) \/ (~EGlowDone /\ SGlowDone)
        /\ returned = "False" =>
              /\ ~EGlowDone
              /\ ~SGlowDone
              /\ \/ thread_files[file_index] # "present"
                 \/ SGlowRun # <<>> /\ ~SGlowRun[Len(SGlowRun)][2]
        /\ (returned # "none" /\ thread_files[file_index] = "present" /\ ~EGlowDone) =>
              SGlowRun # <<>>

\* E-glow was enabled and failed with its texture written, the S-glow path ran
\* up to the alpha adjustment, which failed: the file returned False, no TGA to
\* VTF, no deletion
C25_Witness ==
    /\ thread_class = "NightglowProcessingThread"
    /\ thread_options.vmte_glow
    /\ returned = "False"
    /\ steps = <<<<"generate_e_texture", TRUE>>, <<"process_vmte_glow", FALSE>>,
                 <<"mkdir", TRUE>>, <<"vtf_to_tga", TRUE>>,
                 <<"adjust_alpha_channel", FALSE>>>>

\* C26: in a batch, processed_count + failed_count is the number of files taken
\* up so far, which are the first files of the list in the list's order, no file
\* twice; processed_count is the number of them whose merged VMT was written and
\* whose backup was copied (a backup that was not there when the batch started
\* tells a file that was processed), and when the run has ended with finished
\* every file of the list was taken up
C26_BatchAccounting ==
    op \in {"start_batch", "batch"} =>
        /\ processed_count + failed_count = Len(attempted)
        /\ Len(attempted) <= Len(vmt_files)
        /\ \A i \in 1..Len(attempted) : attempted[i] = vmt_files[i]
        /\ \A i, j \in 1..Len(vmt_files) : i # j => vmt_files[i] # vmt_files[j]
        /\ processed_count =
              Cardinality({i \in 1..Len(attempted) :
                              <<attempted[i], "done">> \in progress})
        /\ \A i \in 1..Len(attempted) :
              /\ <<attempted[i], "done">> \in progress =>
                    /\ output_dir[attempted[i]] # Absent
                    /\ output_dir[OriginalOf(attempted[i])] # Absent
              /\ (started_dir[OriginalOf(attempted[i])] = Absent
                  /\ output_dir[OriginalOf(attempted[i])] # Absent)
                    => <<attempted[i], "done">> \in progress
        /\ signal = "finished" => attempted = vmt_files
        /\ signal = "running" => Len(attempted) < Len(vmt_files)

\* a batch of two files ended, one processed and one failed
C26_Witness ==
    /\ op = "batch"
    /\ signal = "finished"
    /\ Len(vmt_files) = 2
    /\ processed_count = 1
    /\ failed_count = 1

\* C27: cancel() changes nothing of the run but the flag, so the file in flight
\* goes on; the terminal signal is emitted only with no file in flight, once, and
\* a file in flight is finished in the end; after the loop has seen the flag or
\* the end of the list no file is started; and a run that reports
\* processing_finished with True has taken up every file of its list
C27_CancelBetweenFiles ==
    /\ [][(is_cancelled' # is_cancelled) =>
             (UNCHANGED <<pc, steps, returned, file_index, glow_processed_count,
                          emitted>>)]_vars
    /\ [](emitted # <<>> =>
             /\ Len(emitted) = 1
             /\ pc = "done"
             /\ file_index > 0 => returned # "none")
    /\ [][(pc \in {"end", "done"}) => (file_index' = file_index)]_vars
    /\ [][(pc = "loop" /\ is_cancelled) => (pc' \in {"loop", "end"})]_vars
    /\ [](\A i \in 1..Len(emitted) :
             emitted[i] = <<"processing_finished", TRUE>> =>
                 /\ file_index = Len(thread_files)
                 /\ ~is_cancelled \/ pc = "done")
    /\ \A n \in 1..MaxThreadFiles :
          (file_index = n /\ returned = "none") ~> (file_index = n /\ returned # "none")

\* cancel() came while the first of two files was in flight: the file was
\* finished, the second never started, the run reported False
C27_Witness ==
    /\ thread_class = "NightglowProcessingThread"
    /\ Len(thread_files) = 2
    /\ is_cancelled
    /\ file_index = 1
    /\ returned = "True"
    /\ steps # <<>>
    /\ pc = "done"
    /\ emitted = <<<<"processing_finished", FALSE>>>>

\* ------------- L4D2ProcessingThread and L4D2BatchProcessingThread, by step

\* the texture types of the tab
TextureTypes == {"albedo", "roughness", "normal", "metallic", "ao"}

\* the texture types start_single_processing and run insist on
required_textures == <<"albedo", "roughness">>

\* the statements of L4D2ProcessingThread.run after its checks, in order: the
\* textures loaded, the PBR images made, the four VTF conversions, the VMT
\* generated, merged, written, the original backed up
single_steps == <<"load", "process", "convert", "generate", "merge", "write", "backup">>

\* the statements of them that can raise: smart_merge_vmt and
\* create_original_backup answer their own exceptions
Raising == {"load", "process", "convert", "generate", "write"}

\* what a batch turn comes to: the file processed, or an exception in the turn
TurnKinds == {"ok", "fails"}

\* a run that ends where a statement raises, no signal emitted
after_step_silent(step, ok) ==
    IF ~ok THEN "done"
    ELSE IF step = "backup" THEN "finished"
    ELSE single_steps[1 + CHOOSE i \in 1..Len(single_steps) : single_steps[i] = step]

\* where run stands after a statement: before the next one, before
\* self.finished.emit after the last, in its except branch when it raised
after_step(step, ok) ==
    IF ~ok THEN "except"
    ELSE IF step = "backup" THEN "finished"
    ELSE single_steps[1 + CHOOSE i \in 1..Len(single_steps) : single_steps[i] = step]

InitSignal ==
    /\ NoConversion
    /\ thread_class = "none"
    /\ thread_files \in FileLists(TurnKinds)
    /\ thread_options \in [batch_mode : BOOLEAN, output_dir : BOOLEAN,
                           material_name : BOOLEAN]
    /\ texture_paths \in SUBSET TextureTypes
    /\ is_cancelled = FALSE
    /\ file_index = 0
    /\ pc = "none"
    /\ steps = <<>>
    /\ returned = "none"
    /\ e_glow_processed = FALSE
    /\ glow_processed_count = 0
    /\ emitted = <<>>
    /\ handled = 0
    /\ process_btn = TRUE

\* L4D2ConversionTab.start_processing with start_single_processing or
\* start_batch_processing, a press of the process button: a warning and nothing
\* else without an output directory, without a required texture or a material
\* name, or without a VMT file in the directory; else the button is disabled and
\* the thread started
StartProcessing ==
    /\ thread_class = "none"
    /\ process_btn
    /\ steps = <<>>
    /\ LET refused ==
               \/ ~thread_options.output_dir
               \/ thread_options.batch_mode /\ thread_files = <<>>
               \/ /\ ~thread_options.batch_mode
                  /\ \/ \E i \in 1..Len(required_textures) :
                           required_textures[i] \notin texture_paths
                     \/ ~thread_options.material_name
       IN IF refused
          THEN /\ steps' = <<<<"QMessageBox.warning", TRUE>>>>
               /\ UNCHANGED <<thread_class, pc, process_btn>>
          ELSE /\ steps' = steps
               /\ process_btn' = FALSE
               /\ thread_class' = IF thread_options.batch_mode
                                  THEN "L4D2BatchProcessingThread"
                                  ELSE "L4D2ProcessingThread"
               /\ pc' = IF thread_options.batch_mode THEN "batch_loop"
                        ELSE "check_textures"
    /\ UNCHANGED <<thread_files, thread_options, texture_paths, is_cancelled, file_index,
                   returned, e_glow_processed, glow_processed_count, emitted, handled,
                   conversion_vars>>

\* the head of L4D2ProcessingThread.run: error and return where a required
\* texture is missing
CheckTextures ==
    /\ pc = "check_textures"
    /\ IF \E i \in 1..Len(required_textures) : required_textures[i] \notin texture_paths
       THEN /\ emitted' = Append(emitted, "error")
            /\ pc' = "done"
       ELSE /\ emitted' = emitted
            /\ pc' = single_steps[1]
    /\ UNCHANGED <<thread_class, thread_files, thread_options, texture_paths,
                   is_cancelled, file_index, steps, returned, e_glow_processed,
                   glow_processed_count, handled, process_btn, conversion_vars>>

\* one statement of L4D2ProcessingThread.run, which goes through or raises
SingleStep ==
    /\ thread_class = "L4D2ProcessingThread"
    /\ \E i \in 1..Len(single_steps) :
          /\ pc = single_steps[i]
          /\ \E ok \in BOOLEAN :
                /\ ~ok => pc \in Raising
                /\ steps' = Append(steps, <<pc, ok>>)
                /\ pc' = after_step(pc, ok)
    /\ UNCHANGED <<thread_class, thread_files, thread_options, texture_paths,
                   is_cancelled, file_index, returned, e_glow_processed,
                   glow_processed_count, emitted, handled, process_btn,
                   conversion_vars>>

\* one turn of the loop of L4D2BatchProcessingThread.run, whose exceptions the
\* turn answers itself, and after the last turn the way out of the loop
BatchTurn ==
    /\ pc = "batch_loop"
    /\ IF file_index = Len(thread_files)
       THEN /\ pc' = "finished"
            /\ UNCHANGED <<file_index, steps>>
       ELSE /\ file_index' = file_index + 1
            /\ steps' = Append(steps, <<"turn", thread_files[file_index'] = "ok">>)
            /\ pc' = pc
    /\ UNCHANGED <<thread_class, thread_files, thread_options, texture_paths,
                   is_cancelled, returned, e_glow_processed, glow_processed_count,
                   emitted, handled, process_btn, conversion_vars>>

\* self.finished.emit(True, ...), the last statement of either run
EmitFinished ==
    /\ pc = "finished"
    /\ emitted' = Append(emitted, "finished")
    /\ pc' = "done"
    /\ UNCHANGED <<thread_class, thread_files, thread_options, texture_paths,
                   is_cancelled, file_index, steps, returned, e_glow_processed,
                   glow_processed_count, handled, process_btn, conversion_vars>>

\* except Exception as e: self.error.emit(str(e))
EmitError ==
    /\ pc = "except"
    /\ emitted' = Append(emitted, "error")
    /\ pc' = "done"
    /\ UNCHANGED <<thread_class, thread_files, thread_options, texture_paths,
                   is_cancelled, file_index, steps, returned, e_glow_processed,
                   glow_processed_count, handled, process_btn, conversion_vars>>

\* on_processing_finished or on_processing_error of the tab, run by the event
\* loop for a signal emitted: both enable the button
OnProcessingSignal ==
    /\ thread_class \in {"L4D2ProcessingThread", "L4D2BatchProcessingThread"}
    /\ handled < Len(emitted)
    /\ handled' = handled + 1
    /\ process_btn' = TRUE
    /\ UNCHANGED <<thread_class, thread_files, thread_options, texture_paths,
                   is_cancelled, file_index, pc, steps, returned, e_glow_processed,
                   glow_processed_count, emitted, conversion_vars>>

\* the steps of the thread
SignalThread == CheckTextures \/ SingleStep \/ BatchTurn \/ EmitFinished \/ EmitError

NextSignal == StartProcessing \/ SignalThread \/ OnProcessingSignal

SpecSignal == InitSignal /\ [][NextSignal]_vars

\* the thread runs on as long as it has a statement to run, and the event loop
\* runs the slot of a signal that was emitted
SpecSignalFair == SpecSignal /\ WF_vars(SignalThread) /\ WF_vars(OnProcessingSignal)

\* C28: a run of L4D2ProcessingThread or of L4D2BatchProcessingThread emits one
\* terminal signal, finished or error, as its last step and no second one,
\* whichever statement raises: error from the single run where a statement
\* raised, finished otherwise, and from the batch run always, whose turns answer
\* their own exceptions; every run started gets there, the button is
\* disabled only from the start of a run until the slot of its signal has run,
\* and a button that was disabled is enabled again in the end
C28_OneTerminalSignal ==
    /\ [](/\ Len(emitted) <= 1
          /\ \A i \in 1..Len(emitted) : emitted[i] \in {"finished", "error"}
          /\ thread_class # "none" => ((pc = "done") <=> (Len(emitted) = 1))
          /\ \A i \in 1..Len(emitted) :
                emitted[i] = "error" <=>
                    /\ thread_class = "L4D2ProcessingThread"
                    /\ \E j \in 1..Len(steps) : ~steps[j][2]
          /\ ~process_btn <=> (thread_class # "none" /\ handled = 0))
    /\ [][Len(emitted') >= Len(emitted)]_vars
    /\ (thread_class # "none") ~> (Len(emitted) = 1)
    /\ (~process_btn) ~> process_btn

\* a single run whose VMT write raised: error was emitted, its slot has run and
\* the button is enabled again
C28_Witness ==
    /\ thread_class = "L4D2ProcessingThread"
    /\ steps # <<>>
    /\ steps[Len(steps)] = <<"write", FALSE>>
    /\ emitted = <<"error">>
    /\ handled = 1
    /\ process_btn

\* ------------------------- MaterialConfigTab: the materials, one after another

\* the images the loop of the tab takes at most
MaxConfigFiles == 2

\* the formats of the radio buttons
Formats == {"DXT1", "DXT3", "DXT5", "RGBA8888"}

\* the images chosen: the alpha type analyze_alpha_channel finds, and whether
\* is_normal_map_file finds a normal map's mark in the name
ConfigFiles == [alpha_type : AlphaTypes, is_normal_map : BOOLEAN]

ConfigFileLists == UNION {[1..n -> ConfigFiles] : n \in 0..MaxConfigFiles}

\* the materials path typed into the tab
s_config_path == <<"x">>

\* format_name and self.vmt_alpha_config as process_single_material sets them:
\* RGBA8888 and no configuration for a normal map, else by the mode
single_material_format(file, mode, custom_vars, manual_format) ==
    IF file.is_normal_map THEN <<"RGBA8888", <<>>>>
    ELSE CASE mode = "auto" -> get_optimal_format_and_vmt(file.alpha_type)
           [] mode = "custom" -> get_custom_format_and_vmt(file.alpha_type, custom_vars)
           [] OTHER -> <<manual_format, <<>>>>

InitConfig ==
    /\ NoOperation
    /\ NoBatch
    /\ material_files \in ConfigFileLists
    /\ material_format_mode_var \in {"auto", "custom", "manual"}
    /\ custom_format_vars \in (IF material_format_mode_var = "custom"
                               THEN [AlphaTypes -> Formats] ELSE {default_formats})
    /\ vmt_alpha_config = <<>>
    /\ threads = [w \in Workers |-> Idle]
    /\ cdmaterials_var = s_config_path
    /\ materials_dir = [i \in 1..Len(material_files) |-> Absent]
    /\ messagebox = {}
    /\ thread_class = "none"
    /\ thread_files = <<>>
    /\ thread_options = <<>>
    /\ texture_paths = {}
    /\ is_cancelled = FALSE
    /\ file_index = 0
    /\ pc = "materials"
    /\ steps = <<>>
    /\ returned = "none"
    /\ e_glow_processed = FALSE
    /\ glow_processed_count = 0
    /\ emitted = <<>>
    /\ handled = 0
    /\ process_btn = TRUE

\* one turn of the loop of MaterialConfigTab.process_materials, in the thread of
\* the window: process_single_material on the next image. manual_format is the
\* radio button of manual mode, returncode_ok whether VTFCmd returned 0 (else the
\* turn ends in its except branch, no VMT written), skip_vmt whether the name
\* holds a word of the VMT blacklist
ProcessSingleMaterial ==
    /\ pc = "materials"
    /\ file_index < Len(material_files)
    /\ \E manual_format \in (IF material_format_mode_var = "manual"
                             THEN Formats ELSE {"DXT1"}),
          returncode_ok \in BOOLEAN, skip_vmt \in BOOLEAN :
       \E chosen \in {single_material_format(material_files[file_index + 1],
                          material_format_mode_var, custom_format_vars, manual_format)} :
          /\ vmt_alpha_config' = chosen[2]
          /\ steps' = Append(steps, <<chosen[1], chosen[2]>>)
          /\ materials_dir' =
                IF returncode_ok /\ ~skip_vmt
                THEN [materials_dir EXCEPT ![file_index + 1] =
                         generate_normal_vmt_file(chosen[2], BaseName(file_index + 1),
                                                  s_config_path)]
                ELSE materials_dir
          /\ messagebox' = IF returncode_ok THEN messagebox
                           ELSE messagebox \cup {<<"ui", "warning">>}
    /\ file_index' = file_index + 1
    /\ UNCHANGED <<vmt_file, material_name, relative_path, op, existing_content,
                   generated_vmt, existing_params, generated_params, merged_params,
                   vmt_content, reparsed, raised, runs, output_dir, started_dir,
                   pbr_converted, pending, written, progress, signal, processed_count,
                   failed_count, include_files, vmt_files, attempted, material_files,
                   material_format_mode_var, custom_format_vars, threads,
                   cdmaterials_var, thread_class, thread_files, thread_options,
                   texture_paths, is_cancelled, pc, returned, e_glow_processed,
                   glow_processed_count, emitted, handled, process_btn>>

\* get_optimal_format_and_vmt or get_custom_format_and_vmt, by the mode, called
\* with an alpha type, one of the three or any other string
CallGetFormatAndVmt ==
    /\ pc = "materials"
    /\ file_index = 0
    /\ material_format_mode_var \in {"auto", "custom"}
    /\ \E alpha_type \in AlphaTypes \cup {"unknown"} :
          returned' = <<alpha_type>> \o
              (IF material_format_mode_var = "auto"
               THEN get_optimal_format_and_vmt(alpha_type)
               ELSE get_custom_format_and_vmt(alpha_type, custom_format_vars))
    /\ pc' = "called"
    /\ UNCHANGED <<vmt_file, material_name, relative_path, op, existing_content,
                   generated_vmt, existing_params, generated_params, merged_params,
                   vmt_content, reparsed, raised, runs, output_dir, started_dir,
                   pbr_converted, pending, written, progress, signal, processed_count,
                   failed_count, include_files, vmt_files, attempted, tool_vars,
                   thread_class, thread_files, thread_options, texture_paths,
                   is_cancelled, file_index, steps, e_glow_processed,
                   glow_processed_count, emitted, handled, process_btn>>

NextConfig == ProcessSingleMaterial \/ CallGetFormatAndVmt

SpecConfig == InitConfig /\ [][NextConfig]_vars

\* a configuration agrees with the alpha type and the format it was made for:
\* the alphatest parameter for black-and-white alpha in DXT3 or DXT5 only, the
\* translucent parameter for gradient alpha in DXT5 or RGBA8888 only, and nothing
\* else but no parameter
Consistent(alpha_type, format_name, vmt_config) ==
    /\ vmt_config \in {<<>>, alphatest_config, translucent_config}
    /\ vmt_config = alphatest_config =>
          alpha_type = "binary_alpha" /\ format_name \in {"DXT3", "DXT5"}
    /\ vmt_config = translucent_config =>
          alpha_type = "gradient_alpha" /\ format_name \in {"DXT5", "RGBA8888"}
    /\ alpha_type \notin {"binary_alpha", "gradient_alpha"} => vmt_config = <<>>

\* in the tab, where one thread takes the materials one after another, the
\* format and the transparency parameter of every material agree, manual mode
\* and a normal map give no parameter, a normal map takes RGBA8888, and the VMT
\* written holds the parameter in its insert section and names neither parameter
\* anywhere else
ConfigTabConsistent ==
    /\ \A i \in 1..Len(steps) :
          /\ Consistent(material_files[i].alpha_type, steps[i][1], steps[i][2])
          /\ material_format_mode_var = "manual" => steps[i][2] = <<>>
          /\ material_files[i].is_normal_map =>
                steps[i] = <<"RGBA8888", <<>>>>
          /\ materials_dir[i] # Absent =>
                /\ materials_dir[i][6] =
                      (IF steps[i][2] # <<>> THEN <<TAB>> \o steps[i][2] ELSE <<>>)
                /\ \A n \in (1..Len(materials_dir[i])) \ {6} :
                      /\ ~Contains(materials_dir[i][n], <<"$","a","l","p","h","a","t","e","s","t">>)
                      /\ ~Contains(materials_dir[i][n], <<"$","t","r","a","n","s","l","u","c","e","n","t">>)
    /\ pc = "called" => Consistent(returned[1], returned[2], returned[3])

\* custom mode with DXT5 chosen for black-and-white alpha: the image got DXT5 and
\* its VMT "$alphatest" "1"
ConfigTabWitness ==
    /\ material_format_mode_var = "custom"
    /\ Len(steps) >= 1
    /\ material_files[1] = [alpha_type |-> "binary_alpha", is_normal_map |-> FALSE]
    /\ steps[1] = <<"DXT5", alphatest_config>>
    /\ materials_dir[1] # Absent
    /\ materials_dir[1][6] = <<TAB>> \o alphatest_config

\* the <<format, VMT configuration>> the worker of VTFMaterialTool computes for
\* the i-th image (manual mode: the format of the radio button, no parameter)
WorkerFormatAndVmt(i) ==
    CASE material_format_mode_var = "auto" ->
            get_optimal_format_and_vmt(material_files[i].alpha_type)
      [] material_format_mode_var = "custom" ->
            get_custom_format_and_vmt(material_files[i].alpha_type, custom_format_vars)
      [] OTHER -> <<"manual", <<>>>>

\* C29: the transparency parameter of a material's VMT and the format of its
\* texture agree: "$alphatest" "1" is in the VMT only of an image with
\* black-and-white alpha converted to DXT3 or DXT5, in auto or custom mode,
\* "$translucent" "1" only of an image with gradient alpha converted to DXT5 or
\* RGBA8888, and the VMT of an image without alpha, or made in manual mode, has
\* no transparency parameter
C29_TransparencyConsistent ==
    \A i \in 1..Len(material_files) :
        materials_dir[i] # Absent =>
            /\ TransparencyLine(i) = <<TAB>> \o alphatest_config =>
                  /\ material_format_mode_var \in {"auto", "custom"}
                  /\ material_files[i].alpha_type = "binary_alpha"
                  /\ WorkerFormatAndVmt(i)[1] \in {"DXT3", "DXT5"}
            /\ TransparencyLine(i) = <<TAB>> \o translucent_config =>
                  /\ material_format_mode_var \in {"auto", "custom"}
                  /\ material_files[i].alpha_type = "gradient_alpha"
                  /\ WorkerFormatAndVmt(i)[1] \in {"DXT5", "RGBA8888"}
            /\ (material_files[i].alpha_type = "no_alpha"
                \/ material_format_mode_var = "manual") => TransparencyLine(i) = <<>>

\* the document writes a glow parameter: a key that opens with $EmissiveBlend,
\* or $selfillum with the value 0 or 1, whatever the case of the letters
HasGlowParameter(text) ==
    \E i \in 1..Len(DocParams(text)) :
       \/ StartsWith(Lower(DocParams(text)[i][1]), Tail(s_emissiveblend))
       \/ /\ Lower(DocParams(text)[i][1]) = SubSeq(s_selfillum, 2, Len(s_selfillum) - 1)
          /\ DocParams(text)[i][2] \in {<<"0">>, <<"1">>}

\* the lines of the document that write the key, whatever the case of the letters
KeyLines(text, key) ==
    {i \in 1..Len(text) : Lower(FirstToken(text[i])) = Lower(key)}

\* the glow keys of emissive_configs
glow_keys == {FirstToken(emissive_configs(<<>>, <<>>)[i]) : i \in 1..7}

\* C30: glow generation on an existing VMT that already writes an $EmissiveBlend
\* parameter, or $selfillum with "0" or "1", writes no file; and a run on the
\* document a run before wrote writes no document that holds a glow parameter
\* twice
C30_EmissiveIdempotent ==
    /\ (op \in {"generate_emissive_vmt", "generate_vmt_file"}
        /\ existing_content # Absent /\ HasGlowParameter(existing_content)) =>
          vmt_content = Absent
    /\ (op = "generate_vmt_file" /\ vmt_content # Absent) =>
          \A key \in glow_keys : Cardinality(KeyLines(vmt_content, key)) <= 1

\* a run on the document a run before wrote: where that document has the glow
\* parameters under quoted keys, as every writer of the tool writes them, the
\* run writes no file
RerunWritesNothing ==
    (op = "generate_vmt_file" /\ HasEmissive(existing_content)) => vmt_content = Absent

====
